---------------------------- MODULE Spec2Model ----------------------------
(***************************************************************************)
(* StreetLevel home page (src/app/page.tsx, the HomePage component that    *)
(* starts at line 959): the filter-driven queue and playback engine.       *)
(*                                                                         *)
(* The component is a React function component.  Its state is the set of   *)
(* useState cells and refs; an event handler runs against the values of    *)
(* the render it was created in (its closure), its state updates are       *)
(* batched, and after the re-render every useEffect whose dependency list  *)
(* changed runs, in source order, against the values of that render.  An   *)
(* action of this model is one event together with the effect passes that  *)
(* follow it until no dependency changes any more.                         *)
(*                                                                         *)
(* Text values are sequences of one-character strings, so that trim,       *)
(* toLowerCase, includes and the title-case normaliser are computed.       *)
(***************************************************************************)
EXTENDS Naturals, Sequences, FiniteSets

(***************************************************************************)
(* Text                                                                    *)
(***************************************************************************)
Uppers == <<"A","B","C","D","E","F","G","H","I","J","K","L","M",
            "N","O","P","Q","R","S","T","U","V","W","X","Y","Z">>
Lowers == <<"a","b","c","d","e","f","g","h","i","j","k","l","m",
            "n","o","p","q","r","s","t","u","v","w","x","y","z">>

IndexIn(c, alphabet) ==
    IF \E i \in 1..Len(alphabet) : alphabet[i] = c
    THEN CHOOSE i \in 1..Len(alphabet) : alphabet[i] = c
    ELSE 0

lowerOf == [c \in { Uppers[i] : i \in 1..Len(Uppers) } |-> Lowers[IndexIn(c, Uppers)]]
upperOf == [c \in { Lowers[i] : i \in 1..Len(Lowers) } |-> Uppers[IndexIn(c, Lowers)]]

LowerCh(c) == IF c \in DOMAIN lowerOf THEN lowerOf[c] ELSE c
UpperCh(c) == IF c \in DOMAIN upperOf THEN upperOf[c] ELSE c

toLowerCase(s) == [i \in 1..Len(s) |-> LowerCh(s[i])]
toUpperCase(s) == [i \in 1..Len(s) |-> UpperCh(s[i])]

RECURSIVE TrimStart(_)
TrimStart(s) == IF s # <<>> /\ Head(s) = " " THEN TrimStart(Tail(s)) ELSE s

RECURSIVE TrimEnd(_)
TrimEnd(s) ==
    IF s # <<>> /\ s[Len(s)] = " " THEN TrimEnd(SubSeq(s, 1, Len(s) - 1)) ELSE s

trim(s) == TrimEnd(TrimStart(s))

\* s.includes(sub)
includes(s, sub) ==
    \E i \in 0..(Len(s) - Len(sub)) : SubSeq(s, i + 1, i + Len(sub)) = sub

\* s.replace(/\s+/g, rep): every run of blanks becomes rep
RECURSIVE ReplaceRuns(_, _)
ReplaceRuns(s, rep) ==
    IF s = <<>> THEN <<>>
    ELSE IF Head(s) = " "
         THEN rep \o ReplaceRuns(TrimStart(s), rep)
         ELSE <<Head(s)>> \o ReplaceRuns(Tail(s), rep)

\* s.split(sep) for a one-character separator
RECURSIVE SplitAcc(_, _, _)
SplitAcc(s, sep, cur) ==
    IF s = <<>> THEN <<cur>>
    ELSE IF Head(s) = sep
         THEN <<cur>> \o SplitAcc(Tail(s), sep, <<>>)
         ELSE SplitAcc(Tail(s), sep, Append(cur, Head(s)))

split(s, sep) == SplitAcc(s, sep, <<>>)

RECURSIVE join(_, _)
join(parts, sep) ==
    IF parts = <<>> THEN <<>>
    ELSE IF Len(parts) = 1 THEN parts[1]
         ELSE parts[1] \o <<sep>> \o join(Tail(parts), sep)

norm(s) == trim(s)

normSpaces(s) == trim(ReplaceRuns(s, <<" ">>))

minor == { <<"a","n","d">>, <<"o","r">>, <<"t","h","e">>, <<"a">>, <<"a","n">>,
           <<"o","f">>, <<"t","o">>, <<"i","n">>, <<"o","n">>, <<"a","t">>,
           <<"f","o","r">>, <<"w","i","t","h">> }

TitlePart(p, idx, pIdx) ==
    IF p = <<>> THEN p
    ELSE IF p \in minor /\ ~(idx = 0 /\ pIdx = 0) THEN p
         ELSE <<UpperCh(p[1])>> \o Tail(p)

TitleParts(parts, idx) ==
    join([k \in 1..Len(parts) |-> TitlePart(parts[k], idx, k - 1)], "-")

TitleWord(word, idx) == TitleParts(split(word, "-"), idx)

TitleWords(words) ==
    join([k \in 1..Len(words) |-> TitleWord(words[k], k - 1)], " ")

TitleOf(s) == IF s = <<>> THEN <<>> ELSE TitleWords(split(s, " "))

toTitleCaseSmart(input) == TitleOf(toLowerCase(normSpaces(input)))


(***************************************************************************)
(* The external data collaborator (Supabase): the rows the queries of      *)
(* loadTracks read.  null and "" are both the empty text.                  *)
(***************************************************************************)
sPunk   == <<"P","u","n","k">>
sRock   == <<"R","o","c","k">>
sOttawa == <<"O","t","t","a","w","a">>
sFest   == <<"F","E","S","T">>
sDay1   == <<"0","1">>
sDay2   == <<"0","2">>

NoTrack == "none"

TrackRows ==
    { [id |-> "t1", title |-> <<"a">>, band_slug |-> <<"x">>, country |-> <<>>,
       province |-> <<>>, city |-> sOttawa, neighbourhood |-> <<>>,
       genre |-> sPunk, is_radio |-> TRUE],
      [id |-> "t2", title |-> <<"b">>, band_slug |-> <<"x">>, country |-> <<>>,
       province |-> <<>>, city |-> sOttawa, neighbourhood |-> <<>>,
       genre |-> sPunk, is_radio |-> TRUE],
      [id |-> "t3", title |-> <<"c">>, band_slug |-> <<"y">>, country |-> <<>>,
       province |-> <<>>, city |-> <<>>, neighbourhood |-> <<>>,
       genre |-> sRock, is_radio |-> TRUE],
      [id |-> "t4", title |-> <<"d">>, band_slug |-> <<"z","-","z">>, country |-> <<>>,
       province |-> <<>>, city |-> <<>>, neighbourhood |-> <<>>,
       genre |-> sRock, is_radio |-> TRUE] }

TrackIds == { r.id : r \in TrackRows }
rowOf == [id \in TrackIds |-> CHOOSE r \in TrackRows : r.id = id]
Row(id) == rowOf[id]
Bands == { r.band_slug : r \in TrackRows }

\* the rows in the order the server returns them (by id)
IdOrder == <<"t1", "t2", "t3", "t4">>

\* the rows by created_at, descending: a later id is a later upload
NewestFirst == <<"t4", "t3", "t2", "t1">>

\* the rows of band_users: the performers that have an account
BandRows ==
    { [band_slug |-> <<"x">>, band_name |-> <<"X">>, display_name |-> <<"W">>],
      [band_slug |-> <<"z","-","z">>, band_name |-> <<"Z"," ","Z">>,
       display_name |-> <<>>] }

NoBand == [band_slug |-> <<>>, band_name |-> <<>>, display_name |-> <<>>]

RECURSIVE SelectIds(_, _)
SelectIds(order, S) ==
    IF order = <<>> THEN <<>>
    ELSE IF Head(order) \in S
         THEN <<Head(order)>> \o SelectIds(Tail(order), S)
         ELSE SelectIds(Tail(order), S)

EventRows ==
    { [id |-> "e1", country |-> <<>>, province |-> <<>>, city |-> <<>>,
       genre |-> <<>>, show_date |-> sDay1, note |-> sFest, track_id |-> "t3"],
      [id |-> "e2", country |-> <<>>, province |-> <<>>, city |-> sOttawa,
       genre |-> sPunk, show_date |-> sDay1, note |-> <<>>, track_id |-> "t1"],
      [id |-> "e3", country |-> <<"C","a","n","a","d","a">>, province |-> <<>>,
       city |-> <<>>, genre |-> <<>>, show_date |-> sDay2, note |-> <<>>,
       track_id |-> "t4"],
      [id |-> "e4", country |-> <<>>, province |-> <<>>, city |-> sOttawa,
       genre |-> sPunk, show_date |-> sDay2, note |-> <<>>, track_id |-> "t2"],
      [id |-> "e5", country |-> <<>>, province |-> <<>>, city |-> <<>>,
       genre |-> <<>>, show_date |-> sDay1, note |-> <<"G"," ">>,
       track_id |-> "t4"] }

Range(f) == { f[i] : i \in DOMAIN f }

(***************************************************************************)
(* State of HomePage: the useState cells and refs, the asynchronous work   *)
(* in flight, and the audio element.                                       *)
(***************************************************************************)
VARIABLES
    status, q, eventShowName, genre,
    country, province, city, neighbourhood, whereStep,
    date, offlineMode, eventMode,
    eventGenreOptions, eventCityOptions,   \* sorted lists, kept as sets
    masterGenres,                          \* the same
    tracks, pendingFreshRound, queue, nowPlaying,
    autoplayBlocked, autoStartAfterEventPickRef,
    splashPhase,    \* "show" (also while it fades) or "off"
    splashSeen,     \* sessionStorage holds the key sl_splash_seen_v1
    mounted,        \* the first commit (and its effects) has happened
    url,            \* the query parameters of window.location
    inflight,       \* loadTracks calls suspended at an await, in start order
    goTimers,       \* radioLetsGo's setTimeout(() => go(), 30), with go's closure
    autoplayTimer,  \* the autoplay effect's 50 ms timer is pending
    playPending,    \* el.play() promises not yet settled: of the current
                    \* element ("cur") or of an element since removed ("old")
    audio,          \* the audio element: none | paused | playing | ended
    fetchLimit      \* how many loadTracks calls the explored runs keep in
                    \* flight at once (fixed by the initial state)

vars == << status, q, eventShowName, genre, country, province, city,
           neighbourhood, whereStep, date, offlineMode, eventMode,
           eventGenreOptions, eventCityOptions, masterGenres, tracks,
           pendingFreshRound, queue, nowPlaying, autoplayBlocked,
           autoStartAfterEventPickRef, splashPhase, splashSeen, mounted, url,
           inflight, goTimers, autoplayTimer, playPending, audio, fetchLimit >>

\* the values of one render, as a record (what closures capture), plus two
\* notes on the event being processed, which are not state: assigned (the
\* event called setNowPlaying with a track) and attempt (the autoplay effect
\* ran for a track)
Cur ==
    [ status |-> status, q |-> q, eventShowName |-> eventShowName,
      genre |-> genre, country |-> country, province |-> province,
      city |-> city, neighbourhood |-> neighbourhood, whereStep |-> whereStep,
      date |-> date, offlineMode |-> offlineMode, eventMode |-> eventMode,
      eventGenreOptions |-> eventGenreOptions,
      eventCityOptions |-> eventCityOptions, masterGenres |-> masterGenres,
      tracks |-> tracks, pendingFreshRound |-> pendingFreshRound,
      queue |-> queue, nowPlaying |-> nowPlaying,
      autoplayBlocked |-> autoplayBlocked,
      autoStartAfterEventPickRef |-> autoStartAfterEventPickRef,
      splashPhase |-> splashPhase, splashSeen |-> splashSeen,
      url |-> url, inflight |-> inflight, goTimers |-> goTimers,
      autoplayTimer |-> autoplayTimer, playPending |-> playPending,
      audio |-> audio,
      assigned |-> FALSE, attempt |-> FALSE ]

Commit(r) ==
    /\ status' = r.status
    /\ q' = r.q
    /\ eventShowName' = r.eventShowName
    /\ genre' = r.genre
    /\ country' = r.country
    /\ province' = r.province
    /\ city' = r.city
    /\ neighbourhood' = r.neighbourhood
    /\ whereStep' = r.whereStep
    /\ date' = r.date
    /\ offlineMode' = r.offlineMode
    /\ eventMode' = r.eventMode
    /\ eventGenreOptions' = r.eventGenreOptions
    /\ eventCityOptions' = r.eventCityOptions
    /\ masterGenres' = r.masterGenres
    /\ tracks' = r.tracks
    /\ pendingFreshRound' = r.pendingFreshRound
    /\ queue' = r.queue
    /\ nowPlaying' = r.nowPlaying
    /\ autoplayBlocked' = r.autoplayBlocked
    /\ autoStartAfterEventPickRef' = r.autoStartAfterEventPickRef
    /\ splashPhase' = r.splashPhase
    /\ splashSeen' = r.splashSeen
    /\ url' = r.url
    /\ inflight' = r.inflight
    /\ goTimers' = r.goTimers
    /\ autoplayTimer' = r.autoplayTimer
    /\ playPending' = r.playPending
    /\ audio' = r.audio

(***************************************************************************)
(* Pure helpers of the component                                           *)
(***************************************************************************)
\* a Fisher-Yates loop that copies a[j] to a[i] without swapping
RECURSIVE FisherYatesCopy(_, _)
FisherYatesCopy(a, i) ==
    IF i <= 1 THEN {a}
    ELSE UNION { FisherYatesCopy([a EXCEPT ![i] = a[j]], i - 1) : j \in 1..i }

shuffleCopy(arr) == FisherYatesCopy(arr, Len(arr))

RECURSIVE FisherYates(_, _)
FisherYates(a, i) ==
    IF i <= 1 THEN {a}
    ELSE UNION { FisherYates([a EXCEPT ![i] = a[j], ![j] = a[i]], i - 1) :
                 j \in 1..i }

\* shuffle(arr): the outcomes of the Fisher-Yates loop over a copy of arr
\* (i runs from the last index down to the second, j over 0..i)
shuffle(arr) == FisherYates(arr, Len(arr))

\* the filter state a loadTracks call reads from its closure; these are also
\* the dependencies of the auto-load effect
Snap(r) ==
    [ date |-> r.date, country |-> r.country, province |-> r.province,
      city |-> r.city, neighbourhood |-> r.neighbourhood, genre |-> r.genre,
      q |-> r.q, eventShowName |-> r.eventShowName,
      offlineMode |-> r.offlineMode ]

\* the lower-cased fields of a row, as the filter callback computes them
lowerOfRow(t) ==
    [ title |-> toLowerCase(t.title),
      band_slug |-> toLowerCase(t.band_slug),
      country |-> toLowerCase(t.country),
      province |-> toLowerCase(t.province),
      city |-> toLowerCase(t.city),
      neighbourhood |-> toLowerCase(t.neighbourhood),
      genre |-> toLowerCase(t.genre) ]

lowerRow == [id \in TrackIds |-> lowerOfRow(Row(id))]

\* the constants the useMemo callback computes before filtering
needlesOf(qq, r) ==
    [ qq |-> qq, qqSlug |-> ReplaceRuns(qq, <<"-">>),
      co |-> toLowerCase(trim(r.country)),
      pr |-> toLowerCase(trim(r.province)),
      cc |-> toLowerCase(trim(r.city)),
      nb |-> toLowerCase(trim(r.neighbourhood)),
      gg |-> toLowerCase(trim(r.genre)),
      date |-> trim(r.date) ]

needles(r) == needlesOf(toLowerCase(trim(r.q)), r)

hasFilterOf(n) ==
    \/ n.qq # <<>> \/ n.co # <<>> \/ n.pr # <<>> \/ n.cc # <<>>
    \/ n.nb # <<>> \/ n.gg # <<>> \/ n.date # <<>>

hasFilter(r) == hasFilterOf(needles(r))

\* a filter callback that compares the city for equality
matchRowExactCity(n, t) ==
    /\ n.qq = <<>> \/ includes(t.title, n.qq) \/ includes(t.band_slug, n.qq)
       \/ includes(t.band_slug, n.qqSlug)
    /\ n.co = <<>> \/ includes(t.country, n.co)
    /\ n.pr = <<>> \/ includes(t.province, n.pr)
    /\ n.cc = <<>> \/ t.city = n.cc
    /\ n.nb = <<>> \/ includes(t.neighbourhood, n.nb)
    /\ n.gg = <<>> \/ includes(t.genre, n.gg)

\* the filter callback, for a row t with lower-cased fields
matchRow(n, t) ==
    LET matchQ == \/ n.qq = <<>>
                  \/ includes(t.title, n.qq)
                  \/ includes(t.band_slug, n.qq)
                  \/ includes(t.band_slug, n.qqSlug)
        matchCountry == n.co = <<>> \/ includes(t.country, n.co)
        matchProvince == n.pr = <<>> \/ includes(t.province, n.pr)
        matchCity == n.cc = <<>> \/ includes(t.city, n.cc)
        matchNeighbourhood == n.nb = <<>> \/ includes(t.neighbourhood, n.nb)
        matchGenre == n.gg = <<>> \/ includes(t.genre, n.gg)
    IN  matchQ /\ matchCountry /\ matchProvince /\ matchCity
        /\ matchNeighbourhood /\ matchGenre

matchTrack(n, id) == matchRow(n, lowerRow[id])

\* a filter that keeps a track only when some dimension is set
filterByRequiresFilter(n, list) ==
    SelectSeq(list, LAMBDA id : hasFilterOf(n) /\ matchTrack(n, id))

filterBy(n, list) ==
    IF ~hasFilterOf(n) THEN list
    ELSE SelectSeq(list, LAMBDA id : matchTrack(n, id))

\* the useMemo value `filtered` of a render
filtered(r) == filterBy(needles(r), r.tracks)

\* whether the useMemo value is a new array in render c, p being the render
\* before: the memo recomputes when a dependency changed (tracksSet: setTracks
\* was called, always with a new array), and its result is a new array unless
\* it is `tracks` itself both times
filteredChanged(p, c, tracksSet) ==
    \/ tracksSet
    \/ /\ << p.q, p.country, p.province, p.city, p.neighbourhood, p.genre, p.date >>
          # << c.q, c.country, c.province, c.city, c.neighbourhood, c.genre, c.date >>
       /\ hasFilter(p) \/ hasFilter(c)

\* what go() and the loadTracks it calls read from the render they close over
GoClosure(r) ==
    [ filtered |-> filtered(r), queue |-> r.queue,
      offlineMode |-> r.offlineMode, snap |-> Snap(r) ]

(***************************************************************************)
(* loadTracks up to its first await.  cont is what the caller does when    *)
(* the promise settles: <<>> (nothing) or <<closure>> (radioLetsGo's       *)
(* setTimeout of go).  A new call makes every call in flight a superseded  *)
(* one (history only: the code keeps no generation).                       *)
(* With a search text the call first looks the text up in band_users      *)
(* (phase "bands"); without one it goes to the RPC at once.                *)
(***************************************************************************)
\* the non-blank trimmed values of a field over a set of rows
normed(S) == { norm(x) : x \in S } \ { <<>> }

\* setMasterGenres: the genres seen so far and those of the loaded rows
withGenresOf(ids, a) ==
    [a EXCEPT !.masterGenres = normed(@) \cup normed({ Row(id).genre : id \in Range(ids) })]

Supersede(fs) == [i \in 1..Len(fs) |-> [fs[i] EXCEPT !.latest = FALSE]]

cleanEventNameOf(snap) == toUpperCase(normSpaces(snap.eventShowName))

qCleanOf(snap) == trim(normSpaces(snap.q))

qSlugOf(snap) == ReplaceRuns(qCleanOf(snap), <<"-">>)

isEventMode(snap) == snap.date # <<>> \/ cleanEventNameOf(snap) # <<>>

\* a loadTracks that looks at the search text before the event name and date
loadTracksSearchFirst(snap, a, cont) ==
    IF snap.offlineMode
    THEN [a EXCEPT !.status = "Offline mode: not refreshing from server."]
    ELSE IF qCleanOf(snap) # <<>>
    THEN [a EXCEPT !.status = "Loading...",
                   !.eventMode = FALSE,
                   !.eventGenreOptions = {},
                   !.eventCityOptions = {},
                   !.inflight = Append(Supersede(@),
                       [snap |-> snap, phase |-> "bands", ids |-> <<>>,
                        cont |-> cont, latest |-> TRUE])]
    ELSE IF isEventMode(snap)
    THEN [a EXCEPT !.status = "Loading...",
                   !.eventMode = TRUE,
                   !.inflight = Append(Supersede(@),
                       [snap |-> snap, phase |-> "events", ids |-> <<>>,
                        cont |-> cont, latest |-> TRUE])]
    ELSE [a EXCEPT !.status = "Loading...",
                   !.eventMode = FALSE,
                   !.eventGenreOptions = {},
                   !.eventCityOptions = {},
                   !.inflight = Append(Supersede(@),
                       [snap |-> snap, phase |-> "rpc", ids |-> <<>>,
                        cont |-> cont, latest |-> TRUE])]

loadTracks(snap, a, cont) ==
    IF snap.offlineMode
    THEN [a EXCEPT !.status = "Offline mode: not refreshing from server."]
    ELSE IF isEventMode(snap)
    THEN [a EXCEPT !.status = "Loading...",
                   !.eventMode = TRUE,
                   !.inflight = Append(Supersede(@),
                       [snap |-> snap, phase |-> "events", ids |-> <<>>,
                        cont |-> cont, latest |-> TRUE])]
    ELSE [a EXCEPT !.status = "Loading...",
                   !.eventMode = FALSE,
                   !.eventGenreOptions = {},
                   !.eventCityOptions = {},
                   !.inflight = Append(Supersede(@),
                       [snap |-> snap,
                        phase |-> IF qCleanOf(snap) # <<>> THEN "bands" ELSE "rpc",
                        ids |-> <<>>, cont |-> cont, latest |-> TRUE])]

(***************************************************************************)
(* go and playTrack, as functions of the closure K they run in and of the  *)
(* state a their updates are applied to; the result is the set of possible *)
(* states (shuffle is random).                                             *)
(***************************************************************************)
\* a go whose dequeue sets nowPlaying and leaves the queue as it is
goKeepsQueue(K, a) ==
    IF K.filtered = <<>> THEN {a}
    ELSE IF K.queue = <<>>
    THEN IF K.offlineMode
         THEN { [a EXCEPT !.nowPlaying = q2[1], !.queue = Tail(q2),
                          !.assigned = TRUE] : q2 \in shuffle(K.filtered) }
         ELSE { loadTracks(K.snap, [a EXCEPT !.pendingFreshRound = TRUE], <<>>) }
    ELSE { [a EXCEPT !.nowPlaying = Head(K.queue), !.assigned = TRUE] }

\* a go whose offline refill leaves the track it plays in the queue
goOfflineKeepsHead(K, a) ==
    IF K.filtered = <<>> THEN {a}
    ELSE IF K.queue = <<>>
    THEN IF K.offlineMode
         THEN { [a EXCEPT !.nowPlaying = q2[1], !.queue = q2,
                          !.assigned = TRUE] : q2 \in shuffle(K.filtered) }
         ELSE { loadTracks(K.snap, [a EXCEPT !.pendingFreshRound = TRUE], <<>>) }
    ELSE { [a EXCEPT !.nowPlaying = Head(K.queue), !.queue = Tail(K.queue),
                     !.assigned = TRUE] }

\* a go that takes the last track of the queue, not the first
goTakesLast(K, a) ==
    IF K.filtered = <<>> THEN {a}
    ELSE IF K.queue = <<>>
    THEN IF K.offlineMode
         THEN { [a EXCEPT !.nowPlaying = q2[1], !.queue = Tail(q2),
                          !.assigned = TRUE] : q2 \in shuffle(K.filtered) }
         ELSE { loadTracks(K.snap, [a EXCEPT !.pendingFreshRound = TRUE], <<>>) }
    ELSE { [a EXCEPT !.nowPlaying = K.queue[Len(K.queue)],
                     !.queue = SubSeq(K.queue, 1, Len(K.queue) - 1),
                     !.assigned = TRUE] }

go(K, a) ==
    IF K.filtered = <<>> THEN {a}
    ELSE IF K.queue = <<>>
    THEN IF K.offlineMode
         THEN { [a EXCEPT !.nowPlaying = q2[1], !.queue = Tail(q2),
                          !.assigned = TRUE] : q2 \in shuffle(K.filtered) }
         ELSE { loadTracks(K.snap, [a EXCEPT !.pendingFreshRound = TRUE], <<>>) }
    ELSE { [a EXCEPT !.nowPlaying = Head(K.queue), !.queue = Tail(K.queue),
                     !.assigned = TRUE] }

findIndex(q0, id) ==
    IF \E i \in 1..Len(q0) : q0[i] = id
    THEN CHOOSE i \in 1..Len(q0) : q0[i] = id /\ \A j \in 1..(i - 1) : q0[j] # id
    ELSE 0

\* a playTrack whose fresh queue still holds the chosen track
playTrackKeepsChosen(t, K, a) ==
    LET q0 == a.queue
        idx == findIndex(q0, t)
    IN  IF idx >= 1
        THEN { [a EXCEPT !.queue = SubSeq(q0, 1, idx - 1) \o SubSeq(q0, idx + 1, Len(q0)),
                         !.nowPlaying = t, !.assigned = TRUE] }
        ELSE { [a EXCEPT !.queue = s, !.nowPlaying = t, !.assigned = TRUE] :
               s \in shuffle(K.filtered) }

\* a playTrack that also drops the tracks queued before the chosen one
playTrackSkipsTo(t, K, a) ==
    LET q0 == a.queue
        idx == findIndex(q0, t)
    IN  IF idx >= 1
        THEN { [a EXCEPT !.queue = SubSeq(q0, idx + 1, Len(q0)),
                         !.nowPlaying = t, !.assigned = TRUE] }
        ELSE { [a EXCEPT !.queue = SelectSeq(s, LAMBDA x : x # t),
                         !.nowPlaying = t, !.assigned = TRUE] :
               s \in shuffle(K.filtered) }

playTrack(t, K, a) ==
    LET q0 == a.queue
        idx == findIndex(q0, t)
    IN  IF idx >= 1
        THEN { [a EXCEPT !.queue = SubSeq(q0, 1, idx - 1) \o SubSeq(q0, idx + 1, Len(q0)),
                         !.nowPlaying = t, !.assigned = TRUE] }
        ELSE { [a EXCEPT !.queue = SelectSeq(s, LAMBDA x : x # t),
                         !.nowPlaying = t, !.assigned = TRUE] :
               s \in shuffle(K.filtered) }

(***************************************************************************)
(* The effects.  C is the render the effect closes over, a the state its   *)
(* updates are applied to (the updates of one pass are batched).           *)
(***************************************************************************)
\* audioRef.current.pause(); currentTime = 0
pauseAudio(a) ==
    [a EXCEPT !.audio = IF @ = "none" THEN "none" ELSE "paused"]

\* a rebuild that empties the queue of an empty list and lets the track play on
rebuildEffectKeepsOnEmpty(C, a) ==
    IF filtered(C) = <<>>
    THEN { [a EXCEPT !.queue = <<>>] }
    ELSE { IF C.nowPlaying # NoTrack /\ C.nowPlaying \notin Range(shuffled)
           THEN pauseAudio([a EXCEPT !.queue = shuffled, !.nowPlaying = NoTrack,
                                     !.autoplayBlocked = FALSE])
           ELSE [a EXCEPT !.queue = shuffled] :
           shuffled \in shuffle(filtered(C)) }

\* a rebuild that lets a track play on that has left a non-empty list
rebuildEffectKeepsPlaying(C, a) ==
    IF filtered(C) = <<>>
    THEN { pauseAudio([a EXCEPT !.queue = <<>>, !.nowPlaying = NoTrack,
                                !.autoplayBlocked = FALSE]) }
    ELSE { [a EXCEPT !.queue = shuffled] : shuffled \in shuffle(filtered(C)) }

\* "Build a fresh shuffled queue whenever the filtered list changes"
rebuildEffect(C, a) ==
    IF filtered(C) = <<>>
    THEN { pauseAudio([a EXCEPT !.queue = <<>>, !.nowPlaying = NoTrack,
                                !.autoplayBlocked = FALSE]) }
    ELSE { IF C.nowPlaying # NoTrack /\ C.nowPlaying \notin Range(shuffled)
           THEN pauseAudio([a EXCEPT !.queue = shuffled, !.nowPlaying = NoTrack,
                                     !.autoplayBlocked = FALSE])
           ELSE [a EXCEPT !.queue = shuffled] :
           shuffled \in shuffle(filtered(C)) }

\* "Auto-start after picking an event"
autoStartEffect(C, a) ==
    IF ~a.autoStartAfterEventPickRef THEN {a}
    ELSE IF filtered(C) = <<>> THEN {a}
    ELSE { [x EXCEPT !.autoStartAfterEventPickRef = FALSE] :
           x \in IF C.nowPlaying = NoTrack THEN go(GoClosure(C), a) ELSE {a} }

\* "After a fresh server reload (RPC), auto-start a new round"
freshRoundEffect(C, a) ==
    IF ~C.pendingFreshRound THEN {a}
    ELSE IF filtered(C) = <<>> THEN {a}
    ELSE { [a EXCEPT !.nowPlaying = q2[1], !.queue = Tail(q2),
                     !.pendingFreshRound = FALSE, !.assigned = TRUE] :
           q2 \in shuffle(filtered(C)) }

\* "Try to start audio whenever nowPlaying changes": the cleanup of the
\* previous run clears its timer, then the effect sets a new one
autoplayEffect(C, a) ==
    IF C.nowPlaying = NoTrack THEN [a EXCEPT !.autoplayTimer = FALSE]
    ELSE [a EXCEPT !.autoplayBlocked = FALSE, !.autoplayTimer = TRUE,
                   !.attempt = TRUE]

\* syncUrl: a parameter is set to the trimmed value, or deleted when blank
setOrDel(v) == trim(v)

\* a syncUrl that leaves the date out of the link
syncUrlWithoutDate(C, a) ==
    [a EXCEPT !.url =
        [ country |-> setOrDel(C.country), province |-> setOrDel(C.province),
          city |-> setOrDel(C.city), neighbourhood |-> setOrDel(C.neighbourhood),
          genre |-> setOrDel(C.genre), date |-> <<>>,
          q |-> setOrDel(C.q), event |-> setOrDel(C.eventShowName),
          offline |-> IF C.offlineMode THEN <<"1">> ELSE <<>> ]]

syncUrl(C, a) ==
    [a EXCEPT !.url =
        [ country |-> setOrDel(C.country), province |-> setOrDel(C.province),
          city |-> setOrDel(C.city), neighbourhood |-> setOrDel(C.neighbourhood),
          genre |-> setOrDel(C.genre), date |-> setOrDel(C.date),
          q |-> setOrDel(C.q), event |-> setOrDel(C.eventShowName),
          offline |-> IF C.offlineMode THEN <<"1">> ELSE <<>> ]]

\* "Auto-load when filters change"
autoLoadEffect(C, a) == syncUrl(C, loadTracks(Snap(C), a, <<>>))

\* "pull filters from URL (share links)": runs once, on mount; an absent
\* parameter reads as the empty text
rehydrateEffect(a) ==
    LET u == a.url
    IN  [a EXCEPT
          !.country = IF u.country # <<>> THEN u.country ELSE @,
          !.province = IF u.province # <<>> THEN u.province ELSE @,
          !.city = IF u.city # <<>> THEN u.city ELSE @,
          !.neighbourhood = IF u.neighbourhood # <<>> THEN u.neighbourhood ELSE @,
          !.genre = IF u.genre # <<>> THEN u.genre ELSE @,
          !.date = IF u.date # <<>> THEN u.date ELSE @,
          !.q = IF u.q # <<>> THEN u.q ELSE @,
          !.eventShowName = IF u.event # <<>> THEN u.event ELSE @,
          !.offlineMode = IF u.offline = <<"1">>
                             \/ toLowerCase(u.offline) = <<"t","r","u","e">>
                          THEN TRUE ELSE @,
          !.whereStep = IF u.neighbourhood # <<>> THEN "neighbourhood"
                        ELSE IF u.city # <<>> THEN "city"
                        ELSE IF u.province # <<>> THEN "province"
                        ELSE "country" ]

\* "After first load (and after the splash), render the radio UI behind the
\* filters": once the splash is off, nothing plays
afterSplashEffect(C, a) ==
    IF C.splashPhase # "off" THEN a
    ELSE pauseAudio([a EXCEPT !.nowPlaying = NoTrack, !.autoplayBlocked = FALSE])

\* "One-time splash (per session)": runs once, on mount; a session that has
\* seen the splash turns it off at once, another one records it and sets
\* the timers that fade it and turn it off
splashOnceEffect(a) ==
    IF a.splashSeen THEN [a EXCEPT !.splashPhase = "off"]
    ELSE [a EXCEPT !.splashSeen = TRUE, !.splashPhase = "show"]

\* the commit of render C after render P: the audio element is keyed by
\* nowPlaying.id, so another id unmounts it (its pending play() promises
\* are then those of a removed element) and mounts a new, paused one
domCommit(P, C) ==
    IF C.nowPlaying = P.nowPlaying THEN C
    ELSE [C EXCEPT !.audio = IF C.nowPlaying = NoTrack THEN "none" ELSE "paused",
                   !.playPending = IF @ = {} THEN {} ELSE {"old"}]

lengthChanged(P, C) == Len(filtered(P)) # Len(filtered(C))

depsChanged(P, C, filtChg) ==
    \/ Snap(P) # Snap(C)
    \/ filtChg
    \/ lengthChanged(P, C)
    \/ P.pendingFreshRound # C.pendingFreshRound
    \/ P.nowPlaying # C.nowPlaying
    \/ P.splashPhase # C.splashPhase

\* One pass: the effects of render C whose dependencies differ from those of
\* render P (all of them on the first render), in source order.  Each stage
\* is one useEffect and its dependency list.
afterRehydrate(P, C, first) ==
    IF first THEN rehydrateEffect(C) ELSE C

afterSplash(P, C, first) ==
    IF first \/ P.splashPhase # C.splashPhase
    THEN afterSplashEffect(C, afterRehydrate(P, C, first))
    ELSE afterRehydrate(P, C, first)

afterSplashOnce(P, C, first) ==
    IF first THEN splashOnceEffect(afterSplash(P, C, first))
    ELSE afterSplash(P, C, first)

afterAutoLoad(P, C, first) ==
    IF first \/ Snap(P) # Snap(C)
    THEN autoLoadEffect(C, afterSplashOnce(P, C, first))
    ELSE afterSplashOnce(P, C, first)

afterRebuild(P, C, first, filtChg) ==
    IF first \/ filtChg
    THEN rebuildEffect(C, afterAutoLoad(P, C, first))
    ELSE { afterAutoLoad(P, C, first) }

afterAutoStart(P, C, first, filtChg) ==
    UNION { IF first \/ lengthChanged(P, C) THEN autoStartEffect(C, a) ELSE {a} :
            a \in afterRebuild(P, C, first, filtChg) }

afterFreshRound(P, C, first, filtChg) ==
    UNION { IF first \/ lengthChanged(P, C)
               \/ P.pendingFreshRound # C.pendingFreshRound
            THEN freshRoundEffect(C, a) ELSE {a} :
            a \in afterAutoStart(P, C, first, filtChg) }

afterAutoplay(P, C, first, filtChg) ==
    { IF first \/ P.nowPlaying # C.nowPlaying THEN autoplayEffect(C, a) ELSE a :
      a \in afterFreshRound(P, C, first, filtChg) }

effectsPass(P, C0, first, filtChg) ==
    afterAutoplay(P, domCommit(P, C0), first, filtChg)

\* render and run effects until a render changes no dependency; effects set
\* neither tracks nor a filter, so `filtered` is a new array in the first
\* pass at most
RECURSIVE settle(_, _, _, _)
settle(P, C, first, filtChg) ==
    IF ~first /\ ~depsChanged(P, C, filtChg) THEN {C}
    ELSE UNION { settle(domCommit(P, C), a, FALSE, FALSE) :
                 a \in effectsPass(P, C, first, filtChg) }

\* an event whose handler (run in render Cur) left state a
afterEvent(a, tracksSet) == settle(Cur, a, FALSE, filteredChanged(Cur, a, tracksSet))

\* the same for a handler run in render r: the outcomes of one click of
\* Play / Next (or of one ended event) in r
advance(r) ==
    LET P == [r EXCEPT !.assigned = FALSE, !.attempt = FALSE]
    IN  UNION { settle(P, a, FALSE, FALSE) : a \in go(GoClosure(P), P) }

(***************************************************************************)
(* Bounds of the model                                                     *)
(***************************************************************************)
MaxInflight == 2     \* loadTracks calls in flight at once, at most
OneInflight == 1     \* the same, where the races between calls are left out
MaxGoTimers == 1     \* pending setTimeout(go) of radioLetsGo

\* one event: any outcome of its handler and effects, within the bounds
Finish(S) ==
    \E r \in S :
        /\ Len(r.inflight) <= fetchLimit
        /\ Len(r.goTimers) <= MaxGoTimers
        /\ Commit(r)
        /\ mounted' = TRUE
        /\ fetchLimit' = fetchLimit

(***************************************************************************)
(* Initial state: the useState initial values, before the first commit     *)
(***************************************************************************)
NoParams ==
    [ country |-> <<>>, province |-> <<>>, city |-> <<>>, neighbourhood |-> <<>>,
      genre |-> <<>>, date |-> <<>>, q |-> <<>>, event |-> <<>>, offline |-> <<>> ]

InitWith(urls, limit, seen) ==
    /\ status = ""
    /\ q = <<>>
    /\ eventShowName = <<>>
    /\ genre = <<>>
    /\ country = <<>>
    /\ province = <<>>
    /\ city = <<>>
    /\ neighbourhood = <<>>
    /\ whereStep = "country"
    /\ date = <<>>
    /\ offlineMode = FALSE
    /\ eventMode = FALSE
    /\ eventGenreOptions = {}
    /\ eventCityOptions = {}
    /\ masterGenres = {}
    /\ tracks = <<>>
    /\ pendingFreshRound = FALSE
    /\ queue = <<>>
    /\ nowPlaying = NoTrack
    /\ autoplayBlocked = FALSE
    /\ autoStartAfterEventPickRef = FALSE
    /\ splashPhase = "show"
    /\ splashSeen \in seen
    /\ mounted = FALSE
    /\ url \in urls
    /\ inflight = <<>>
    /\ goTimers = <<>>
    /\ autoplayTimer = FALSE
    /\ playPending = {}
    /\ audio = "none"
    /\ fetchLimit = limit

(***************************************************************************)
(* Events                                                                  *)
(***************************************************************************)
\* the first commit: every effect runs
Mount ==
    /\ ~mounted
    /\ Finish(settle(Cur, Cur, TRUE, TRUE))

\* the last timer of the splash: setSplashPhase("off")
SplashOff ==
    /\ mounted
    /\ splashPhase # "off"
    /\ Finish(afterEvent([Cur EXCEPT !.splashPhase = "off"], FALSE))

\* the "Play / Next" button (disabled while filtered is empty)
Go ==
    /\ mounted
    /\ filtered(Cur) # <<>>
    /\ Finish(advance(Cur))

\* the audio element's ended event: onEndedAdvance
MediaEnded ==
    /\ mounted
    /\ audio = "playing"
    /\ Finish(advance([Cur EXCEPT !.audio = "ended"]))

\* the Play button of a row of the rendered queue
PlayTrack(t) ==
    /\ mounted
    /\ t \in Range(queue)
    /\ Finish(UNION { afterEvent(a, FALSE) : a \in playTrack(t, GoClosure(Cur), Cur) })

\* playTrack for a track that is not queued any more: the Play button of a
\* row the listener still sees after the queue has been replaced
PlayTrackStale(t) ==
    /\ mounted
    /\ t \notin Range(queue)
    /\ Finish(UNION { afterEvent(a, FALSE) : a \in playTrack(t, GoClosure(Cur), Cur) })

\* RADIO LETS GO: online it awaits loadTracks and then, if nothing was
\* playing when it was clicked, sets a timer for the go of that render
RadioLetsGo ==
    /\ mounted
    /\ LET cont == IF nowPlaying = NoTrack THEN <<GoClosure(Cur)>> ELSE <<>>
           a == IF ~offlineMode
                THEN loadTracks(Snap(Cur), Cur, cont)
                ELSE [Cur EXCEPT !.goTimers = @ \o cont]
       IN  Finish(afterEvent(a, FALSE))

RemoveAt(seq, i) == SubSeq(seq, 1, i - 1) \o SubSeq(seq, i + 1, Len(seq))

GoTimerFires(i) ==
    /\ mounted
    /\ i \in 1..Len(goTimers)
    /\ Finish(UNION { afterEvent(a, FALSE) :
                      a \in go(goTimers[i], [Cur EXCEPT !.goTimers = RemoveAt(@, i)]) })

\* the option a controlled select shows: its value, or the first option
\* ("Any ...", the empty value) when the value is not among the options
shown(value, options) == IF value \in options THEN value ELSE <<>>

genreOptions(r) ==
    IF r.date # <<>> THEN {<<>>} \cup r.eventGenreOptions
    ELSE {<<>>} \cup normed(r.masterGenres) \cup normed({r.genre})

\* in event-date mode the cities of the events, else those of the tracks
cityOptions(r) ==
    IF r.date # <<>> THEN {<<>>} \cup r.eventCityOptions
    ELSE {<<>>} \cup normed({ Row(id).city : id \in Range(r.tracks) })

\* the genre select; v is an option other than the one shown
SetGenre(v) ==
    /\ mounted
    /\ v \in genreOptions(Cur)
    /\ v # shown(genre, genreOptions(Cur))
    /\ Finish(afterEvent([Cur EXCEPT !.genre = v], FALSE))

\* the offline checkbox
SetOfflineMode ==
    /\ mounted
    /\ Finish(afterEvent([Cur EXCEPT !.offlineMode = ~@], FALSE))

\* the band / song search input
SetQ(v) ==
    /\ mounted
    /\ v # q
    /\ Finish(afterEvent([Cur EXCEPT !.q = v], FALSE))

\* the event-name input (typed text is upper-cased)
SetEventShowName(v) ==
    /\ mounted
    /\ toUpperCase(v) # eventShowName
    /\ Finish(afterEvent([Cur EXCEPT !.eventShowName = toUpperCase(v)], FALSE))

slice10(s) == SubSeq(s, 1, IF Len(s) < 10 THEN Len(s) ELSE 10)

\* a row of the calendar modal
pickEventWith(showName, ev, a) ==
    [a EXCEPT
      !.eventShowName = IF showName # <<>> THEN showName ELSE <<>>,
      !.date = IF showName # <<>> THEN <<>> ELSE slice10(ev.show_date),
      !.country = IF ev.country # <<>> THEN toTitleCaseSmart(ev.country) ELSE @,
      !.province = IF ev.province # <<>> THEN toTitleCaseSmart(ev.province) ELSE @,
      !.city = IF ev.city # <<>> THEN toTitleCaseSmart(ev.city) ELSE @,
      !.genre = IF ev.genre # <<>> THEN toTitleCaseSmart(ev.genre) ELSE @,
      !.q = <<>>,
      !.whereStep = IF ev.city # <<>> THEN "neighbourhood"
                    ELSE IF ev.province # <<>> THEN "city"
                    ELSE IF ev.country # <<>> THEN "province"
                    ELSE "country",
      !.autoStartAfterEventPickRef = TRUE ]

pickEventAndPlay(ev, a) ==
    pickEventWith(toUpperCase(normSpaces(ev.note)), ev, a)

\* the rows the calendar modal shows (the calendar holds every event, all
\* upcoming): those that match the location and genre filters; the rows of
\* EventRows differ in date and name, so none is dropped as a repetition
calendarMatches(r) ==
    { ev \in EventRows :
        /\ slice10(ev.show_date) # <<>>
        /\ includes(toLowerCase(ev.country), toLowerCase(trim(r.country)))
        /\ includes(toLowerCase(ev.province), toLowerCase(trim(r.province)))
        /\ includes(toLowerCase(ev.city), toLowerCase(trim(r.city)))
        /\ includes(toLowerCase(ev.genre), toLowerCase(trim(r.genre))) }

PickEventAndPlay(ev) ==
    /\ mounted
    /\ ev \in calendarMatches(Cur)
    /\ Finish(afterEvent(pickEventAndPlay(ev, Cur), FALSE))

(***************************************************************************)
(* The location drill-down of the filter panel                             *)
(***************************************************************************)
sCanada  == <<"C","a","n","a","d","a">>
sOntario == <<"O","n","t","a","r","i","o">>
sVanier  == <<"V","a","n","i","e","r">>

\* the option tables, cut down to one entry a level
COUNTRY_OPTIONS == { sCanada }

PROVINCES_BY_COUNTRY(c) == { sOntario }

CITIES_BY_PROVINCE(p) == IF p = sOntario THEN { sOttawa } ELSE {}

NEIGHBOURHOODS_BY_CITY(c) == IF c = sOttawa THEN { sVanier } ELSE {}

clearLocation(a) ==
    [a EXCEPT !.country = <<>>, !.province = <<>>, !.city = <<>>,
              !.neighbourhood = <<>>, !.whereStep = "country"]

\* the non-blank levels, in order
prettyBreadcrumb(r) ==
    SelectSeq(<<normSpaces(r.country), normSpaces(r.province),
                normSpaces(r.city), normSpaces(r.neighbourhood)>>,
              LAMBDA x : x # <<>>)

WhereSteps == <<"country", "province", "city", "neighbourhood">>

\* a resetBelow that clears only the level next to the given one
resetBelowNextOnly(step, a) ==
    IF step = "country"
    THEN [a EXCEPT !.province = <<>>, !.whereStep = "country"]
    ELSE IF step = "province"
    THEN [a EXCEPT !.city = <<>>, !.whereStep = "province"]
    ELSE IF step = "city"
    THEN [a EXCEPT !.neighbourhood = <<>>, !.whereStep = "city"]
    ELSE [a EXCEPT !.whereStep = "neighbourhood"]

resetBelow(step, a) ==
    IF step = "country"
    THEN [a EXCEPT !.province = <<>>, !.city = <<>>, !.neighbourhood = <<>>,
                   !.whereStep = "country"]
    ELSE IF step = "province"
    THEN [a EXCEPT !.city = <<>>, !.neighbourhood = <<>>, !.whereStep = "province"]
    ELSE IF step = "city"
    THEN [a EXCEPT !.neighbourhood = <<>>, !.whereStep = "city"]
    ELSE [a EXCEPT !.whereStep = "neighbourhood"]

pickCountry(v, a) ==
    [a EXCEPT !.country = toTitleCaseSmart(v), !.province = <<>>, !.city = <<>>,
              !.neighbourhood = <<>>, !.whereStep = "province"]

\* a pickProvince that leaves the neighbourhood as it is
pickProvinceKeepsNeighbourhood(v, a) ==
    [a EXCEPT !.province = toTitleCaseSmart(v), !.city = <<>>,
              !.whereStep = "city"]

pickProvince(v, a) ==
    [a EXCEPT !.province = toTitleCaseSmart(v), !.city = <<>>,
              !.neighbourhood = <<>>, !.whereStep = "city"]

pickCity(v, a) ==
    [a EXCEPT !.city = toTitleCaseSmart(v), !.neighbourhood = <<>>,
              !.whereStep = "neighbourhood"]

pickNeighbourhood(v, a) ==
    [a EXCEPT !.neighbourhood = toTitleCaseSmart(v), !.whereStep = "neighbourhood"]

\* the Clear button (disabled while every level is empty)
ClearLocation ==
    /\ mounted
    /\ country # <<>> \/ province # <<>> \/ city # <<>> \/ neighbourhood # <<>>
    /\ Finish(afterEvent(clearLocation(Cur), FALSE))

\* a click on the idx-th button of the breadcrumb
BreadcrumbClick(idx) ==
    /\ mounted
    /\ idx \in 1..Len(prettyBreadcrumb(Cur))
    /\ Finish(afterEvent(resetBelow(WhereSteps[idx], Cur), FALSE))

\* the select of the level the cursor is at; v is an option other than the
\* one shown
PickCountry(v) ==
    /\ mounted
    /\ whereStep = "country"
    /\ v \in COUNTRY_OPTIONS \cup {<<>>}
    /\ v # shown(country, COUNTRY_OPTIONS)
    /\ Finish(afterEvent(pickCountry(v, Cur), FALSE))

PickProvince(v) ==
    /\ mounted
    /\ whereStep = "province"
    /\ v \in PROVINCES_BY_COUNTRY(country) \cup {<<>>}
    /\ v # shown(province, PROVINCES_BY_COUNTRY(country))
    /\ Finish(afterEvent(pickProvince(v, Cur), FALSE))

\* the options of the city select: the table's and, in event-date mode,
\* the event cities
citySelectOptions(r) ==
    CITIES_BY_PROVINCE(r.province)
      \cup (IF r.date # <<>> THEN cityOptions(r) \ {<<>>} ELSE {})

PickCity(v) ==
    /\ mounted
    /\ whereStep = "city"
    /\ v \in citySelectOptions(Cur) \cup {<<>>}
    /\ v # shown(city, citySelectOptions(Cur))
    /\ Finish(afterEvent(pickCity(v, Cur), FALSE))

PickNeighbourhood(v) ==
    /\ mounted
    /\ whereStep = "neighbourhood"
    /\ v \in NEIGHBOURHOODS_BY_CITY(city) \cup {<<>>}
    /\ v # shown(neighbourhood, NEIGHBOURHOODS_BY_CITY(city))
    /\ Finish(afterEvent(pickNeighbourhood(v, Cur), FALSE))

(***************************************************************************)
(* The server's answers                                                    *)
(***************************************************************************)
\* a constraint of radio_pick_one_per_band_filtered: absent (null) or equal
serverMatch(value, constraint) ==
    constraint = <<>> \/ toLowerCase(value) = toLowerCase(constraint)

eligibleFor(qLower, snap) ==
    { r \in TrackRows :
        /\ r.is_radio
        /\ serverMatch(r.country, snap.country)
        /\ serverMatch(r.province, snap.province)
        /\ serverMatch(r.city, snap.city)
        /\ serverMatch(r.neighbourhood, snap.neighbourhood)
        /\ serverMatch(r.genre, snap.genre)
        /\ \/ qLower = <<>>
           \/ includes(toLowerCase(r.title), qLower)
           \/ includes(toLowerCase(r.band_slug), qLower) }

eligible(snap) == eligibleFor(toLowerCase(normSpaces(snap.q)), snap)

\* one track of every performer of the rows el, picked at random
onePerPerformer(el) ==
    LET bs == { r.band_slug : r \in el }
    IN  { SelectIds(IdOrder, { f[b] : b \in bs }) :
          f \in { g \in [bs -> TrackIds] :
                    \A b \in bs : Row(g[b]) \in el /\ Row(g[b]).band_slug = b } }

\* radio_pick_one_per_band_filtered
sampleOnePerPerformer(snap) == onePerPerformer(eligible(snap))

\* the band_users rows the lookup of band mode returns
bandsQuery(snap) ==
    { b \in BandRows :
        \/ b.band_slug = toLowerCase(qSlugOf(snap))
        \/ b.band_slug = toLowerCase(qCleanOf(snap))
        \/ includes(toLowerCase(b.band_name), toLowerCase(qCleanOf(snap)))
        \/ includes(toLowerCase(b.display_name), toLowerCase(qCleanOf(snap))) }

\* `best`: the first returned row with that very name, else the first row,
\* else none; the rows come in no particular order
bestBands(snap) ==
    LET exact == { b \in bandsQuery(snap) :
                     \/ toLowerCase(trim(b.band_name)) = toLowerCase(qCleanOf(snap))
                     \/ toLowerCase(trim(b.display_name)) = toLowerCase(qCleanOf(snap)) }
    IN  IF exact # {} THEN exact
        ELSE IF bandsQuery(snap) # {} THEN bandsQuery(snap)
        ELSE {NoBand}

\* tracks with .eq("band_slug", slug), newest first
bandTracks(slug) ==
    SelectIds(NewestFirst, { r.id : r \in { x \in TrackRows : x.band_slug = slug } })

\* events, with .ilike("note", %name%) when an event name is given
eventsNamed(name) ==
    { e \in EventRows :
        name = <<>> \/ includes(toLowerCase(e.note), toLowerCase(name)) }

eventsQuery(snap) == eventsNamed(cleanEventNameOf(snap))

\* loadTracks' client-side selection among the returned events
selectEvents(name, evs, snap) ==
    { e \in evs :
        IF name # <<>> THEN toUpperCase(e.note) = name
        ELSE /\ includes(toLowerCase(e.city), toLowerCase(trim(snap.city)))
             /\ includes(toLowerCase(e.genre), toLowerCase(trim(snap.genre))) }

filteredEvents(snap) ==
    selectEvents(cleanEventNameOf(snap), eventsQuery(snap), snap)

eventTrackIds(snap) ==
    { e.track_id : e \in { x \in filteredEvents(snap) : x.track_id # NoTrack } }

(***************************************************************************)
(* loadTracks after an await.  i is the position of the call in inflight.  *)
(***************************************************************************)
\* the call returns: it leaves inflight and its caller continues
returned(f, i, a) ==
    [a EXCEPT !.inflight = RemoveAt(@, i),
              !.goTimers = @ \o f.cont]

\* the call goes on to its next await
awaiting(f, i, a, phase, ids) ==
    [a EXCEPT !.inflight[i] = [f EXCEPT !.phase = phase, !.ids = ids]]

eventsFailed(f, i, a) ==
    returned(f, i, [a EXCEPT !.status = "Event load error", !.tracks = <<>>,
                             !.eventGenreOptions = {}, !.eventCityOptions = {}])

\* "build dropdown options (event-mode)" from the returned events
withEventOptions(evs, a) ==
    [a EXCEPT !.eventGenreOptions = normed({ e.genre : e \in evs }),
              !.eventCityOptions = normed({ e.city : e \in evs })]

\* a date search that goes on without a city and a genre
eventsLoadedUngated(name, ids, f, i, a) ==
    IF ids = {}
    THEN returned(f, i, [a EXCEPT !.tracks = <<>>,
             !.status = IF name # <<>> THEN "No songs found for event name"
                        ELSE "No events found"])
    ELSE awaiting(f, i, a, "eventTracks", SelectIds(IdOrder, ids))

\* a loadTracks whose city and genre gate applies to a named event as well
eventsLoadedGatedAlways(name, ids, f, i, a) ==
    IF f.snap.date # <<>>
       /\ (trim(f.snap.city) = <<>> \/ trim(f.snap.genre) = <<>>)
    THEN returned(f, i, [a EXCEPT !.tracks = <<>>,
             !.status = "Pick a date + city + genre to see event radio songs."])
    ELSE IF ids = {}
    THEN returned(f, i, [a EXCEPT !.tracks = <<>>,
             !.status = IF name # <<>> THEN "No songs found for event name"
                        ELSE "No events found"])
    ELSE awaiting(f, i, a, "eventTracks", SelectIds(IdOrder, ids))

eventsLoadedWith(name, ids, f, i, a) ==
    IF name = <<>> /\ f.snap.date # <<>>
       /\ (trim(f.snap.city) = <<>> \/ trim(f.snap.genre) = <<>>)
    THEN returned(f, i, [a EXCEPT !.tracks = <<>>,
             !.status = "Pick a date + city + genre to see event radio songs."])
    ELSE IF ids = {}
    THEN returned(f, i, [a EXCEPT !.tracks = <<>>,
             !.status = IF name # <<>> THEN "No songs found for event name"
                        ELSE "No events found"])
    ELSE awaiting(f, i, a, "eventTracks", SelectIds(IdOrder, ids))

eventsLoaded(f, i, a) ==
    eventsLoadedWith(cleanEventNameOf(f.snap), eventTrackIds(f.snap), f, i,
                     withEventOptions(eventsQuery(f.snap), a))

eventTracksFailed(f, i, a) ==
    returned(f, i, [a EXCEPT !.status = "Tracks load error", !.tracks = <<>>])

eventTracksLoaded(f, i, a) ==
    returned(f, i, [withGenresOf(SelectIds(f.ids, TrackIds), a) EXCEPT
                             !.tracks = SelectIds(f.ids, TrackIds),
                             !.status = IF cleanEventNameOf(f.snap) # <<>>
                                        THEN "Event search" ELSE "Event radio"])

\* the band lookup has returned (with no rows when it failed)
bandsLooked(f, i, a, best) ==
    IF trim(best.band_slug) # <<>>
    THEN awaiting(f, i, a, "bandTracks", bandTracks(trim(best.band_slug)))
    ELSE awaiting(f, i, a, "rpc", <<>>)

bandTracksFailed(f, i, a) ==
    returned(f, i, [a EXCEPT !.status = "Band tracks load error", !.tracks = <<>>])

\* a band mode that keeps only the tracks of the selected genre and city
bandTracksLoadedFiltered(f, i, a) ==
    returned(f, i, [withGenresOf(f.ids, a) EXCEPT
        !.tracks = SelectSeq(f.ids, LAMBDA id :
                       /\ serverMatch(Row(id).genre, f.snap.genre)
                       /\ serverMatch(Row(id).city, f.snap.city)),
        !.status = "Band mode"])

bandTracksLoaded(f, i, a) ==
    returned(f, i, [withGenresOf(f.ids, a) EXCEPT !.tracks = f.ids,
                             !.status = "Band mode"])

\* "retry with slug if empty"
retriesWithSlug(snap) == qSlugOf(snap) # qCleanOf(snap) /\ qSlugOf(snap) # <<>>

rpcRetryFailed(f, i, a) ==
    returned(f, i, [a EXCEPT !.status = "Load error"])

rpcRetryLoaded(f, i, a, data) ==
    returned(f, i, [withGenresOf(data, a) EXCEPT !.tracks = data,
                             !.status = IF data # <<>> THEN ""
                                        ELSE "No radio tracks yet."])

rpcFailed(f, i, a) ==
    IF retriesWithSlug(f.snap) THEN awaiting(f, i, a, "rpcRetry", <<>>)
    ELSE rpcRetryFailed(f, i, a)

rpcLoaded(f, i, a, data) ==
    IF data = <<>> /\ retriesWithSlug(f.snap)
    THEN awaiting(f, i, a, "rpcRetry", <<>>)
    ELSE rpcRetryLoaded(f, i, a, data)

\* a continuation of loadTracks has run: it called setTracks unless it went
\* on to another await
afterLoad(a) == afterEvent(a, Len(a.inflight) < Len(inflight))

EventsFetchFails(i) ==
    /\ i \in 1..Len(inflight) /\ inflight[i].phase = "events"
    /\ Finish(afterEvent(eventsFailed(inflight[i], i, Cur), TRUE))

EventsFetchSucceeds(i) ==
    /\ i \in 1..Len(inflight) /\ inflight[i].phase = "events"
    /\ Finish(afterLoad(eventsLoaded(inflight[i], i, Cur)))

EventTracksFetchFails(i) ==
    /\ i \in 1..Len(inflight) /\ inflight[i].phase = "eventTracks"
    /\ Finish(afterEvent(eventTracksFailed(inflight[i], i, Cur), TRUE))

EventTracksFetchSucceeds(i) ==
    /\ i \in 1..Len(inflight) /\ inflight[i].phase = "eventTracks"
    /\ Finish(afterEvent(eventTracksLoaded(inflight[i], i, Cur), TRUE))

RpcFails(i) ==
    /\ i \in 1..Len(inflight) /\ inflight[i].phase = "rpc"
    /\ Finish(afterEvent(rpcFailed(inflight[i], i, Cur), FALSE))

RpcSucceeds(i) ==
    /\ i \in 1..Len(inflight) /\ inflight[i].phase = "rpc"
    /\ \E data \in sampleOnePerPerformer(inflight[i].snap) :
          Finish(afterLoad(rpcLoaded(inflight[i], i, Cur, data)))

RpcRetryFails(i) ==
    /\ i \in 1..Len(inflight) /\ inflight[i].phase = "rpcRetry"
    /\ Finish(afterEvent(rpcRetryFailed(inflight[i], i, Cur), FALSE))

RpcRetrySucceeds(i) ==
    /\ i \in 1..Len(inflight) /\ inflight[i].phase = "rpcRetry"
    /\ \E data \in onePerPerformer(
                      eligibleFor(toLowerCase(qSlugOf(inflight[i].snap)),
                                  inflight[i].snap)) :
          Finish(afterEvent(rpcRetryLoaded(inflight[i], i, Cur, data), TRUE))

BandsLookupFails(i) ==
    /\ i \in 1..Len(inflight) /\ inflight[i].phase = "bands"
    /\ Finish(afterEvent(bandsLooked(inflight[i], i, Cur, NoBand), FALSE))

BandsLookupSucceeds(i) ==
    /\ i \in 1..Len(inflight) /\ inflight[i].phase = "bands"
    /\ \E best \in bestBands(inflight[i].snap) :
          Finish(afterEvent(bandsLooked(inflight[i], i, Cur, best), FALSE))

BandTracksFetchFails(i) ==
    /\ i \in 1..Len(inflight) /\ inflight[i].phase = "bandTracks"
    /\ Finish(afterEvent(bandTracksFailed(inflight[i], i, Cur), TRUE))

BandTracksFetchSucceeds(i) ==
    /\ i \in 1..Len(inflight) /\ inflight[i].phase = "bandTracks"
    /\ Finish(afterEvent(bandTracksLoaded(inflight[i], i, Cur), TRUE))

(***************************************************************************)
(* The audio element and the autoplay attempt                              *)
(***************************************************************************)
\* the 50 ms timer of the autoplay effect: el.play() on the current element
AutoplayTimerFires ==
    /\ mounted /\ autoplayTimer
    /\ Finish(afterEvent([Cur EXCEPT !.autoplayTimer = FALSE,
                  !.playPending = IF Cur.audio = "none" THEN @ ELSE @ \cup {"cur"}],
              FALSE))

\* await el.play() returns: the element plays (its play event runs onPlay)
PlayFulfils ==
    /\ mounted /\ "cur" \in playPending
    /\ Finish(afterEvent([Cur EXCEPT !.playPending = @ \ {"cur"},
                  !.audio = "playing", !.autoplayBlocked = FALSE], FALSE))

\* a rejection that is swallowed: the catch block sets nothing
PlayRejectsSilently(which) ==
    /\ mounted /\ which \in playPending
    /\ which = "cur" => audio # "playing"
    /\ Finish(afterEvent([Cur EXCEPT !.playPending = @ \ {which}], FALSE))

\* await el.play() throws: refused by the autoplay policy, or the element
\* was removed while the promise was pending
PlayRejects(which) ==
    /\ mounted /\ which \in playPending
    /\ which = "cur" => audio # "playing"
    /\ Finish(afterEvent([Cur EXCEPT !.playPending = @ \ {which},
                  !.autoplayBlocked = TRUE], FALSE))

\* the element starts playing by its autoPlay attribute or by the listener
\* pressing play on its controls: onPlay
MediaPlay ==
    /\ mounted /\ audio \in {"paused", "ended"}
    /\ Finish(afterEvent([Cur EXCEPT !.audio = "playing",
                  !.autoplayBlocked = FALSE], FALSE))

(***************************************************************************)
(* The queue engine: the page is opened without parameters, in a session   *)
(* that has seen the splash; the listener changes genre, event name and    *)
(* offline mode, picks the named event from the calendar, and plays; one   *)
(* loadTracks call is in flight at a time.                                 *)
(***************************************************************************)
CoreGenres == { <<>>, sPunk }
CoreEvents == { e \in EventRows : e.id = "e1" }

Init == InitWith({NoParams}, OneInflight, {TRUE})

UserPlays ==
    \/ Go
    \/ \E t \in TrackIds : PlayTrack(t)

UserFilters ==
    \/ \E v \in CoreGenres : SetGenre(v)
    \/ SetOfflineMode
    \/ SetEventShowName(<<>>)
    \/ \E ev \in CoreEvents : PickEventAndPlay(ev)

FetchSettles ==
    \/ \E i \in 1..MaxInflight : EventsFetchFails(i)
    \/ \E i \in 1..MaxInflight : EventsFetchSucceeds(i)
    \/ \E i \in 1..MaxInflight : EventTracksFetchFails(i)
    \/ \E i \in 1..MaxInflight : EventTracksFetchSucceeds(i)
    \/ \E i \in 1..MaxInflight : RpcFails(i)
    \/ \E i \in 1..MaxInflight : RpcSucceeds(i)

Next ==
    \/ Mount
    \/ UserPlays
    \/ UserFilters
    \/ FetchSettles
    \/ MediaPlay
    \/ MediaEnded

Spec == Init /\ [][Next]_vars

(***************************************************************************)
(* The radio button: as above, but the listener presses RADIO LETS GO,     *)
(* changes the genre and plays; the timer that RADIO LETS GO sets fires.   *)
(***************************************************************************)
InitRadio == InitWith({NoParams}, OneInflight, {TRUE})

NextRadio ==
    \/ Mount
    \/ Go
    \/ RadioLetsGo
    \/ \E i \in 1..MaxGoTimers : GoTimerFires(i)
    \/ \E v \in CoreGenres : SetGenre(v)
    \/ \E i \in 1..OneInflight : RpcFails(i)
    \/ \E i \in 1..OneInflight : RpcSucceeds(i)

SpecRadio == InitRadio /\ [][NextRadio]_vars

(***************************************************************************)
(* Properties of the queue engine                                          *)
(***************************************************************************)
NoDuplicates(seq) ==
    \A i, j \in 1..Len(seq) : i # j => seq[i] # seq[j]

\* C1: in every reachable state nowPlaying is null or a track of the current
\* filtered list.
C1_NowPlayingInFiltered ==
    nowPlaying = NoTrack \/ nowPlaying \in Range(filtered(Cur))

\* C2: whenever a track is playing, the queue holds no track with its id.
C2_QueueExcludesNowPlaying ==
    nowPlaying # NoTrack => nowPlaying \notin Range(queue)

\* C3: the server's lists having pairwise distinct ids (as every list of
\* this model has), the queue never holds two tracks with the same id.
C3_QueueHasNoDuplicates ==
    NoDuplicates(tracks) => NoDuplicates(queue)

\* C3, its case: a track is playing out of a fetched list of three, the
\* other two waiting in the queue
C3_Witness ==
    /\ nowPlaying # NoTrack
    /\ Len(tracks) = 3
    /\ Len(queue) = 2

IsPermutation(a, b) ==
    Len(a) = Len(b) /\ Range(a) = Range(b) /\ NoDuplicates(a)

\* a freshly built queue with nothing playing
FreshQueue ==
    /\ mounted
    /\ nowPlaying = NoTrack
    /\ filtered(Cur) # <<>>
    /\ IsPermutation(queue, filtered(Cur))

\* k consecutive advances from render r: the tracks served and the last render
RECURSIVE Advances(_, _)
Advances(r, k) ==
    IF k = 0 THEN { [served |-> <<>>, last |-> r] }
    ELSE UNION { { [served |-> Append(x.served, n.nowPlaying), last |-> n] :
                   n \in advance(x.last) } : x \in Advances(r, k - 1) }

RoundServesAll(x) ==
    IsPermutation(x.served, filtered(Cur))

NextRoundStarts(x, y) ==
    IF offlineMode
    THEN /\ y.inflight = x.last.inflight
         /\ y.nowPlaying # NoTrack
         /\ IsPermutation(<<y.nowPlaying>> \o y.queue, filtered(Cur))
    ELSE Len(y.inflight) = Len(x.last.inflight) + 1

\* C4: from a freshly built queue of n tracks with nothing playing, n
\* consecutive advances serve each of the n tracks once; the advance after
\* them starts a fetch online, and offline plays the head of a new shuffle
\* of the same list.
C4_RoundServesEachOnce ==
    FreshQueue =>
        \A x \in Advances(Cur, Len(queue)) :
            /\ RoundServesAll(x)
            /\ \A y \in advance(x.last) : NextRoundStarts(x, y)

\* C4, its case: a freshly built queue of three tracks, offline or online
C4_Witness ==
    FreshQueue /\ Len(queue) = 3

\* C5: online, an advance on an empty queue (the filtered list not being
\* empty) starts a re-fetch and leaves nowPlaying as it is until the fetch
\* has resolved.
C5_EmptyQueueAdvanceWaitsForFetch ==
    [][ (Go \/ MediaEnded) /\ queue = <<>> /\ ~offlineMode
          => nowPlaying' = nowPlaying ]_vars

\* a fetch of a loadTracks call in flight fails
FetchFails ==
    \E i \in 1..MaxInflight :
        EventsFetchFails(i) \/ EventTracksFetchFails(i) \/ RpcFails(i)

\* C9: when a fetch fails, the candidate list, the queue and nowPlaying stay
\* as they were and the status is set to a non-empty error text.
C9_FetchFailureKeepsState ==
    [][ FetchFails => /\ tracks' = tracks
                      /\ queue' = queue
                      /\ nowPlaying' = nowPlaying
                      /\ status' # "" ]_vars

(***************************************************************************)
(* Overlapping loads: the page is opened without parameters or from a      *)
(* share link with a genre, in a session that has seen the splash; the     *)
(* listener changes the genre and plays, and up to MaxInflight loadTracks  *)
(* calls are in flight, their responses arriving in any order.             *)
(***************************************************************************)
RaceUrls == { NoParams, [NoParams EXCEPT !.genre = sPunk] }

InitRace == InitWith(RaceUrls, MaxInflight, {TRUE})

NextRace ==
    \/ Mount
    \/ Go
    \/ \E v \in CoreGenres : SetGenre(v)
    \/ \E i \in 1..MaxInflight : RpcFails(i)
    \/ \E i \in 1..MaxInflight : RpcSucceeds(i)

SpecRace == InitRace /\ [][NextRace]_vars

\* the response of a call that a later call has superseded arrives
SupersededResponse ==
    \E i \in 1..MaxInflight :
        (RpcFails(i) \/ RpcSucceeds(i)) /\ ~inflight[i].latest

\* C6: the response of a superseded fetch is not applied: it changes neither
\* the candidate list nor the status.
C6_SupersededResponseIgnored ==
    [][ SupersededResponse => tracks' = tracks /\ status' = status ]_vars

(***************************************************************************)
(* Playback: the page is opened from a share link with a genre that one    *)
(* performer matches (a one-track list), online or offline, with or        *)
(* without the splash; the listener plays, and the audio element, the      *)
(* splash and autoplay timers and the play() promises take their steps.    *)
(***************************************************************************)
PlayUrls ==
    { [NoParams EXCEPT !.genre = sPunk],
      [NoParams EXCEPT !.genre = sPunk, !.offline = <<"1">>] }

InitPlay == InitWith(PlayUrls, MaxInflight, BOOLEAN)

UserRadio ==
    \/ Go
    \/ \E t \in TrackIds : PlayTrack(t)

TimersFire ==
    \/ SplashOff
    \/ AutoplayTimerFires

PlaySettles ==
    \/ PlayFulfils
    \/ \E which \in {"cur", "old"} : PlayRejects(which)

NextPlay ==
    \/ Mount
    \/ UserRadio
    \/ TimersFire
    \/ PlaySettles
    \/ MediaPlay
    \/ MediaEnded
    \/ \E i \in 1..MaxInflight : RpcFails(i)
    \/ \E i \in 1..MaxInflight : RpcSucceeds(i)

SpecPlay == InitPlay /\ [][NextPlay]_vars

\* nothing is pending that could still start a track: no fetch, no timer, no
\* play() promise, no fresh round
NothingPending ==
    /\ inflight = <<>>
    /\ goTimers = <<>>
    /\ ~autoplayTimer
    /\ playPending = {}
    /\ ~pendingFreshRound
    /\ ~autoStartAfterEventPickRef

\* C7: the system never rests in a state where the current track has ended,
\* candidates exist, the last start attempt was not rejected and no start
\* attempt (nor anything that leads to one) is pending.
C7_NeverRestsAfterEnded ==
    ~( /\ audio = "ended"
       /\ filtered(Cur) # <<>>
       /\ ~autoplayBlocked
       /\ NothingPending )

\* the outcomes of one click of a row's Play button in render r
played(r, t) ==
    LET P == [r EXCEPT !.assigned = FALSE, !.attempt = FALSE]
    IN  UNION { settle(P, a, FALSE, FALSE) : a \in playTrack(t, GoClosure(P), P) }

\* the outcomes of the operations that may assign nowPlaying in this state:
\* Play / Next, the ended event of a playing track, a row's Play button
Assignments ==
    advance(Cur)
      \cup (IF audio = "playing" THEN advance([Cur EXCEPT !.audio = "ended"]) ELSE {})
      \cup UNION { played(Cur, t) : t \in Range(queue) }

\* C8: whenever an operation sets nowPlaying to a track, a start attempt is
\* made for that assignment, also when the track has the id of the previous
\* nowPlaying.
C8_AssignmentStartsMedia ==
    mounted => \A r \in Assignments : r.assigned => r.attempt

(***************************************************************************)
(* Location: the page is opened without parameters or from an offline      *)
(* share link that names a neighbourhood, with or without its city, in a   *)
(* session that has seen the splash; the listener drills down and back up, *)
(* clears the location and picks the events of the calendar that name a    *)
(* city or a country; one loadTracks call is in flight at a time.          *)
(***************************************************************************)
LocUrls ==
    { NoParams,
      [NoParams EXCEPT !.neighbourhood = sVanier, !.offline = <<"1">>],
      [NoParams EXCEPT !.city = sOttawa, !.neighbourhood = sVanier,
                       !.offline = <<"1">>] }

LocValues == { <<>>, sCanada, sOntario, sOttawa, sVanier }

\* the calendar rows that name a city and a country
LocEvents == { e \in EventRows : e.id \in {"e2", "e3"} }

InitLoc == InitWith(LocUrls, OneInflight, {TRUE})

UserLocates ==
    \/ \E v \in LocValues : PickCountry(v)
    \/ \E v \in LocValues : PickProvince(v)
    \/ \E v \in LocValues : PickCity(v)
    \/ \E v \in LocValues : PickNeighbourhood(v)
    \/ \E idx \in 1..4 : BreadcrumbClick(idx)
    \/ ClearLocation
    \/ \E ev \in LocEvents : PickEventAndPlay(ev)

NextLoc == Mount \/ UserLocates \/ FetchSettles

SpecLoc == InitLoc /\ [][NextLoc]_vars

\* C10: in every reachable state a non-empty neighbourhood implies a
\* non-empty city.
C10_NeighbourhoodImpliesCity == neighbourhood # <<>> => city # <<>>

\* C11: immediately after a picker sets level L, all deeper levels are
\* empty, the shallower levels are unchanged, and the cursor is at the next
\* deeper level (it stays at neighbourhood).
C11_PickerClearsDeeperLevels ==
    [][ /\ (\E v \in LocValues : PickCountry(v)) =>
              /\ province' = <<>> /\ city' = <<>> /\ neighbourhood' = <<>>
              /\ whereStep' = "province"
        /\ (\E v \in LocValues : PickProvince(v)) =>
              /\ country' = country
              /\ city' = <<>> /\ neighbourhood' = <<>>
              /\ whereStep' = "city"
        /\ (\E v \in LocValues : PickCity(v)) =>
              /\ country' = country /\ province' = province
              /\ neighbourhood' = <<>>
              /\ whereStep' = "neighbourhood"
        /\ (\E v \in LocValues : PickNeighbourhood(v)) =>
              /\ country' = country /\ province' = province /\ city' = city
              /\ whereStep' = "neighbourhood" ]_vars

\* C11, its case: the listener has drilled down through all four levels
C11_Witness ==
    /\ country = sCanada /\ province = sOntario
    /\ city = sOttawa /\ neighbourhood = sVanier

sX == <<"X">>
sZZ == <<"Z"," ","Z">>
sOtta == <<"o","t","t","a">>
sOttawam == <<"o","t","t","a","w","a","m">>
sPun == <<"P","u","n">>

SearchUrls ==
    { NoParams,
      [NoParams EXCEPT !.q = sX, !.city = sOtta],
      [NoParams EXCEPT !.q = sX, !.city = sOttawam],
      [NoParams EXCEPT !.q = sX, !.genre = sPun],
      [NoParams EXCEPT !.q = sX, !.event = sFest] }

SearchTexts == { <<>>, sX, sZZ, <<"a">> }

InitSearch == InitWith(SearchUrls, MaxInflight, {TRUE})

PerformerSettles ==
    \/ \E i \in 1..MaxInflight : BandsLookupFails(i)
    \/ \E i \in 1..MaxInflight : BandsLookupSucceeds(i)
    \/ \E i \in 1..MaxInflight : BandTracksFetchFails(i)
    \/ \E i \in 1..MaxInflight : BandTracksFetchSucceeds(i)

RetrySettles ==
    \/ \E i \in 1..MaxInflight : RpcRetryFails(i)
    \/ \E i \in 1..MaxInflight : RpcRetrySucceeds(i)

NextSearch ==
    \/ Mount
    \/ \E v \in SearchTexts : SetQ(v)
    \/ FetchSettles
    \/ PerformerSettles
    \/ RetrySettles

SpecSearch == InitSearch /\ [][NextSearch]_vars

\* the needle is empty after trimming, or the field contains it, whatever
\* the case of the letters
Contained(field, needle) ==
    \/ trim(needle) = <<>>
    \/ includes(toLowerCase(field), toLowerCase(trim(needle)))

LocationContained(t) ==
    /\ Contained(t.country, country) /\ Contained(t.province, province)
    /\ Contained(t.city, city) /\ Contained(t.neighbourhood, neighbourhood)

Kept(id) == id \in Range(filtered(Cur))

\* C13 as stated: a track of the candidate list is kept iff the search text
\* is contained in its title or performer slug and each selected location
\* level is contained in its field (case-insensitively, after trimming).
C13_KeptIffContained ==
    \A id \in Range(tracks) :
        /\ Kept(id) =>
              /\ Contained(Row(id).title, q) \/ Contained(Row(id).band_slug, q)
              /\ LocationContained(Row(id))
        /\ ( /\ trim(genre) = <<>>
             /\ Contained(Row(id).title, q) \/ Contained(Row(id).band_slug, q)
             /\ LocationContained(Row(id)) ) => Kept(id)

\* the search text in slug form: every run of white space replaced by "-"
SlugForm(text) == ReplaceRuns(toLowerCase(trim(text)), <<"-">>)

\* C13: a track of the candidate list is kept iff the search text, or its
\* slug form, is contained in its title or performer slug (the slug form in
\* the performer slug), and each selected location level is contained in
\* its field (case-insensitively, after trimming).
C13_KeptIffContainedOrSlug ==
    \A id \in Range(tracks) :
        /\ Kept(id) =>
              /\ \/ Contained(Row(id).title, q) \/ Contained(Row(id).band_slug, q)
                 \/ Contained(Row(id).band_slug, SlugForm(q))
              /\ LocationContained(Row(id))
        /\ ( /\ trim(genre) = <<>>
             /\ \/ Contained(Row(id).title, q) \/ Contained(Row(id).band_slug, q)
                \/ Contained(Row(id).band_slug, SlugForm(q))
             /\ LocationContained(Row(id)) ) => Kept(id)

\* C13, its case: a city filter that is part of the city's name keeps the
\* performer's tracks
C13_Witness ==
    /\ city = sOtta /\ q = sX
    /\ tracks = <<"t2", "t1">> /\ filtered(Cur) = tracks

\* C14: with a genre selected, a track is kept only if its genre equals the
\* selected genre after normalisation (trimmed, whatever the case); a track
\* whose genre merely contains the selected text is dropped.
C14_GenreMatchesByEquality ==
    \A id \in Range(tracks) :
        (trim(genre) # <<>> /\ Kept(id)) =>
            toLowerCase(trim(Row(id).genre)) = toLowerCase(trim(genre))

\* a date search (a date and no event name) that lacks a city or a genre
DateSearchLacksCityOrGenre(snap) ==
    /\ cleanEventNameOf(snap) = <<>> /\ snap.date # <<>>
    /\ trim(snap.city) = <<>> \/ trim(snap.genre) = <<>>

\* how many calls in flight wait for the tracks of their events
EventTrackCalls(fs) ==
    Cardinality({ j \in DOMAIN fs : fs[j].phase = "eventTracks" })

\* C15: when the events of a date search without a city or without a genre
\* have been read, the candidate list is set empty, the status asks for a
\* date, a city and a genre, and the call issues no tracks query.
C15_DateSearchNeedsCityAndGenre ==
    [][ \A i \in 1..MaxInflight :
          ( /\ EventsFetchSucceeds(i)
            /\ DateSearchLacksCityOrGenre(inflight[i].snap) ) =>
              /\ tracks' = <<>>
              /\ status' = "Pick a date + city + genre to see event radio songs."
              /\ EventTrackCalls(inflight') <= EventTrackCalls(inflight) ]_vars

\* C15, its case: tracks had been loaded (their genres are known), then a
\* date was set with no city and no genre, and the search has ended with
\* the request to pick them
C15_Witness ==
    /\ date = sDay2 /\ eventShowName = <<>> /\ city = <<>> /\ genre = <<>>
    /\ masterGenres # {} /\ inflight = <<>> /\ tracks = <<>>
    /\ status = "Pick a date + city + genre to see event radio songs."

\* a date search: a date and no event name
DateSearch(snap) == cleanEventNameOf(snap) = <<>> /\ snap.date # <<>>

\* the events whose show date is the date of the search
EventsOn(snap) == { e \in EventRows : slice10(e.show_date) = snap.date }

\* C16: in a date search every track placed in the candidate list is the
\* track of an event of exactly that date whose city and genre match the
\* selected ones, and the dropdown options come from events of that date.
C16_DateSearchUsesThatDateOnly ==
    [][ \A i \in 1..MaxInflight :
          /\ (EventTracksFetchSucceeds(i) /\ DateSearch(inflight[i].snap)) =>
                \A id \in Range(tracks') :
                    \E e \in selectEvents(<<>>, EventsOn(inflight[i].snap),
                                           inflight[i].snap) : e.track_id = id
          /\ (EventsFetchSucceeds(i) /\ DateSearch(inflight[i].snap)) =>
                /\ eventGenreOptions' \subseteq
                       normed({ e.genre : e \in EventsOn(inflight[i].snap) })
                /\ eventCityOptions' \subseteq
                       normed({ e.city : e \in EventsOn(inflight[i].snap) }) ]_vars

\* the awaits of the three retrieval modes
EventPhases == { "events", "eventTracks" }
PerformerPhases == { "bands", "bandTracks" }
AmbientPhases == { "rpc", "rpcRetry" }

\* how many calls in flight wait for the sampling RPC
AmbientCalls(fs) == Cardinality({ j \in DOMAIN fs : fs[j].phase \in AmbientPhases })

\* C17: a loadTracks call with an event name or a date waits only for the
\* event queries (no performer lookup, no sampling call); otherwise a call
\* whose performer lookup returns a performer goes on to that performer's
\* tracks and issues no sampling call; a call without search text issues
\* the sampling call only.
C17_OneRetrievalModeByPrecedence ==
    [][ /\ \A j \in DOMAIN inflight' :
              /\ isEventMode(inflight'[j].snap) =>
                    inflight'[j].phase \in EventPhases
              /\ ~isEventMode(inflight'[j].snap) =>
                    inflight'[j].phase \in PerformerPhases \cup AmbientPhases
              /\ inflight'[j].phase \in PerformerPhases =>
                    qCleanOf(inflight'[j].snap) # <<>>
              /\ inflight'[j].phase = "bandTracks" =>
                    bandsQuery(inflight'[j].snap) # {}
        /\ \A i \in 1..MaxInflight :
              /\ ( /\ BandsLookupSucceeds(i)
                   /\ bandsQuery(inflight[i].snap) # {} ) =>
                     /\ i \in DOMAIN inflight'
                     /\ inflight'[i].phase = "bandTracks"
              /\ (BandTracksFetchSucceeds(i) \/ BandTracksFetchFails(i)) =>
                     AmbientCalls(inflight') <= AmbientCalls(inflight) ]_vars

\* C17, its case: a call started with an event name and a search text that
\* names a performer has gone on to the tracks of the event
C17_Witness ==
    \E j \in DOMAIN inflight :
        /\ cleanEventNameOf(inflight[j].snap) = sFest
        /\ bandsQuery(inflight[j].snap) # {}
        /\ inflight[j].phase = "eventTracks"

\* every track of the performer with this slug
TracksOfPerformer(slug) == { r.id : r \in { x \in TrackRows : x.band_slug = slug } }

\* C18: when the tracks query of performer-name mode returns, the candidate
\* list holds every track of the matched performer, each once, whatever
\* genre and location levels are selected.
C18_PerformerModeListsAllTracks ==
    [][ \A i \in 1..MaxInflight :
          BandTracksFetchSucceeds(i) =>
            \E b \in bestBands(inflight[i].snap) :
                /\ Range(tracks') = TracksOfPerformer(b.band_slug)
                /\ Len(tracks') = Cardinality(TracksOfPerformer(b.band_slug)) ]_vars

\* C18, its case: performer x is matched while a genre is selected that is
\* not the genre of x's tracks, and both tracks of x are listed
C18_Witness ==
    /\ q = sX /\ genre = sPun /\ status = "Band mode"
    /\ Range(tracks) = {"t1", "t2"}

\* C19: an advance (the Play / Next button, or the end of the playing
\* track) with a non-empty queue makes the head of the queue the playing
\* track and the rest, in the same order, the queue; it starts no fetch and
\* leaves the candidate list as it is.
C19_AdvanceDequeuesHead ==
    [][ ((Go \/ MediaEnded) /\ queue # <<>>) =>
            /\ nowPlaying' = Head(queue)
            /\ queue' = Tail(queue)
            /\ inflight' = inflight
            /\ tracks' = tracks ]_vars

\* C19, its case: of three candidates one is still queued after two
\* dequeues, and no load is in flight
C19_Witness ==
    /\ Len(tracks) = 3 /\ Len(queue) = 1 /\ inflight = <<>>
    /\ nowPlaying # NoTrack /\ nowPlaying \notin Range(queue)
    /\ nowPlaying \in Range(tracks)

\* C20: playing a track t that is in the queue makes t the playing track
\* and removes exactly t from the queue; the other tracks keep their order.
C20_PlaySpecificRemovesOnlyThatTrack ==
    [][ \A t \in TrackIds :
          PlayTrack(t) =>
            /\ nowPlaying' = t
            /\ queue' = SelectSeq(queue, LAMBDA x : x # t)
            /\ Len(queue') = Len(queue) - 1 ]_vars

\* C20, its case: of the candidates t1, t3, t4 the middle one plays and the
\* two others are queued in their order
C20_Witness ==
    /\ tracks = <<"t1", "t3", "t4">> /\ inflight = <<>>
    /\ nowPlaying = "t3" /\ queue = <<"t1", "t4">>

(***************************************************************************)
(* The stale row: as the queue engine, with the genre select and the Play  *)
(* buttons only, and with playTrack also called for a track that has left  *)
(* the queue; one loadTracks call is in flight at a time.                  *)
(***************************************************************************)
InitStale == InitWith({NoParams}, OneInflight, {TRUE})

NextStale ==
    \/ Mount
    \/ Go
    \/ \E t \in TrackIds : PlayTrack(t)
    \/ \E t \in TrackIds : PlayTrackStale(t)
    \/ \E v \in CoreGenres : SetGenre(v)
    \/ \E i \in 1..OneInflight : RpcFails(i)
    \/ \E i \in 1..OneInflight : RpcSucceeds(i)

SpecStale == InitStale /\ [][NextStale]_vars

\* C21: playing a track t that is not in the queue makes t the playing
\* track and the queue a permutation of the current filtered list without
\* t; the status is not touched.
C21_StalePlayRebuildsQueue ==
    [][ \A t \in TrackIds :
          PlayTrackStale(t) =>
            /\ nowPlaying' = t
            /\ IsPermutation(queue', SelectSeq(filtered(Cur), LAMBDA x : x # t))
            /\ status' = status ]_vars

\* C21, its case: the candidates are narrowed to the genre Punk, the one
\* Punk candidate is queued, and a track that is no candidate any more plays
C21_Witness ==
    /\ genre = sPunk /\ inflight = <<>>
    /\ Len(tracks) = 1 /\ queue = tracks
    /\ nowPlaying = "t3"

C23_OfflineRefillReshuffles ==
    [][ ( /\ Go \/ MediaEnded
          /\ offlineMode /\ queue = <<>> /\ filtered(Cur) # <<>> ) =>
            /\ inflight' = inflight
            /\ nowPlaying' \in Range(filtered(Cur))
            /\ IsPermutation(<<nowPlaying'>> \o queue', filtered(Cur))
            /\ tracks' = tracks ]_vars

\* C23, its case: offline with three candidates and no load in flight, a
\* round has begun: one track plays and the two others are queued
C23_Witness ==
    /\ offlineMode /\ inflight = <<>> /\ ~pendingFreshRound
    /\ Len(tracks) = 3 /\ genre = <<>> /\ Len(queue) = 2
    /\ IsPermutation(<<nowPlaying>> \o queue, tracks)

\* C24: a rejected start attempt for the playing track sets autoplayBlocked
\* and changes neither nowPlaying, the queue nor the status; once set for a
\* playing track, autoplayBlocked is cleared only by a play on the element,
\* by a successful start or by a change of nowPlaying; a successful start
\* leaves it false.
C24_RejectedStartBlocksUntilPlay ==
    [][ /\ (PlayRejects("cur") /\ nowPlaying # NoTrack) =>
              /\ autoplayBlocked'
              /\ nowPlaying' = nowPlaying /\ queue' = queue
              /\ status' = status
        /\ (autoplayBlocked /\ nowPlaying # NoTrack /\ ~autoplayBlocked') =>
              \/ MediaPlay \/ PlayFulfils
              \/ nowPlaying' # nowPlaying
        /\ PlayFulfils => ~autoplayBlocked' ]_vars

\* C24, its case: the start of the playing track was refused and nothing
\* else is pending
C24_Witness ==
    /\ nowPlaying # NoTrack /\ autoplayBlocked
    /\ audio = "paused" /\ playPending = {} /\ ~autoplayTimer

\* C25: the late outcome of a start attempt made for an earlier value of
\* nowPlaying (its element has been removed since) does not change
\* autoplayBlocked.
C25_StaleAttemptHasNoEffect ==
    [][ PlayRejects("old") => autoplayBlocked' = autoplayBlocked ]_vars

\* C26: nowPlaying changes only in a step of an advance (Play / Next, the
\* end of the playing track), of playing a chosen track, or in a step that
\* changes the filtered list; every other event leaves it as it is.
C26_NowPlayingChangesOnlyByPlayback ==
    [][ nowPlaying' # nowPlaying =>
            \/ Go \/ MediaEnded
            \/ \E t \in TrackIds : PlayTrack(t)
            \/ filtered(Cur)' # filtered(Cur) ]_vars

\* C27: when a load ends successfully with an empty candidate list, the queue
\* is empty, nothing is playing and the status is not empty; the status of a
\* date search that lacks a city or a genre is not the status of a search
\* that found nothing.
C27_NoHitsStopsAndExplains ==
    [][ \A i \in 1..MaxInflight :
          ( /\ \/ EventsFetchSucceeds(i) \/ EventTracksFetchSucceeds(i)
               \/ RpcSucceeds(i) \/ RpcRetrySucceeds(i)
               \/ BandTracksFetchSucceeds(i)
            /\ Len(inflight') < Len(inflight)
            /\ tracks' = <<>> ) =>
              /\ queue' = <<>>
              /\ nowPlaying' = NoTrack
              /\ status' # ""
              /\ status' = "Pick a date + city + genre to see event radio songs."
                    <=> ( inflight[i].phase = "events"
                          /\ DateSearchLacksCityOrGenre(inflight[i].snap) ) ]_vars

\* C27, its case: tracks had been loaded (their genres are known) and a later
\* search has found none
C27_Witness ==
    /\ masterGenres # {} /\ inflight = <<>> /\ tracks = <<>>
    /\ status \in {"No radio tracks yet.", "No events found"}
    /\ queue = <<>> /\ nowPlaying = NoTrack

\* C28: a click on the breadcrumb button of a level (resetBelow of that level)
\* clears the value of that level and of every deeper level, leaves the
\* shallower levels unchanged and sets the cursor to that level.
C28_ResetClearsLevelAndDeeper ==
    [][ \A idx \in 1..4 : BreadcrumbClick(idx) =>
          /\ \A k \in 1..4 :
                <<country', province', city', neighbourhood'>>[k] =
                    IF k >= idx THEN <<>>
                    ELSE <<country, province, city, neighbourhood>>[k]
          /\ whereStep' = WhereSteps[idx] ]_vars

\* C28 as the code has it: resetBelow of a level clears the value of every
\* deeper level, leaves the value of that level and of the shallower levels
\* unchanged and sets the cursor to that level.
C28_ResetClearsDeeperOnly ==
    [][ \A idx \in 1..4 : BreadcrumbClick(idx) =>
          /\ \A k \in 1..4 :
                <<country', province', city', neighbourhood'>>[k] =
                    IF k > idx THEN <<>>
                    ELSE <<country, province, city, neighbourhood>>[k]
          /\ whereStep' = WhereSteps[idx] ]_vars

\* C28, its case: the cursor is back at the country, which keeps its value,
\* with every deeper level empty
C28_Witness ==
    /\ whereStep = "country" /\ country = sCanada
    /\ province = <<>> /\ city = <<>> /\ neighbourhood = <<>>

\* C29: in every step that changes the filtered list to a non-empty list the
\* queue becomes a permutation of the new filtered list (the same tracks,
\* each once, none of the previous queue kept), and every outcome of shuffle
\* is a permutation of the list given.
C29_ChangedListReplacesQueue ==
    [][ (filtered(Cur)' # filtered(Cur) /\ filtered(Cur)' # <<>>) =>
            /\ IsPermutation(queue', filtered(Cur)')
            /\ \A shuffled \in shuffle(filtered(Cur)') :
                   IsPermutation(shuffled, filtered(Cur)') ]_vars

(***************************************************************************)
(* The event search of a share link that carries a date: the listener      *)
(* types an event name, selects a genre and starts the radio.              *)
(***************************************************************************)
NamedUrls == { [NoParams EXCEPT !.date = sDay1] }

NamedTexts == { <<>>, sFest }

InitNamed == InitWith(NamedUrls, MaxInflight, {TRUE})

NextNamed ==
    \/ Mount
    \/ Go
    \/ \E v \in NamedTexts : SetEventShowName(v)
    \/ \E v \in CoreGenres : SetGenre(v)
    \/ FetchSettles

SpecNamed == InitNamed /\ [][NextNamed]_vars

\* C30: a search by event name with no city and no genre is not stopped by
\* the city and genre gate: when its events have been read and some event
\* has that name, the call goes on to read their tracks, and when these
\* arrive the candidate list holds exactly the tracks of the events of that
\* name.
C30_NamedEventNeedsNoCityOrGenre ==
    [][ \A i \in 1..MaxInflight :
          LET snap == inflight[i].snap
              named == { e \in EventRows :
                           /\ toUpperCase(e.note) = cleanEventNameOf(snap)
                           /\ e.track_id # NoTrack }
              bare == /\ cleanEventNameOf(snap) # <<>>
                      /\ trim(snap.city) = <<>> /\ trim(snap.genre) = <<>>
          IN  /\ (EventsFetchSucceeds(i) /\ bare /\ named # {}) =>
                    /\ EventTrackCalls(inflight') > EventTrackCalls(inflight)
                    /\ \E j \in DOMAIN inflight' :
                          /\ inflight'[j].phase = "eventTracks"
                          /\ inflight'[j].snap = snap
              /\ (EventTracksFetchSucceeds(i) /\ bare) =>
                    /\ Range(tracks') = { e.track_id : e \in named }
                    /\ NoDuplicates(tracks') ]_vars

\* C30, its case: the name FEST is set beside a date, with no city and no
\* genre, and the track of the event of that name has been loaded
C30_Witness ==
    /\ eventShowName = sFest /\ date = sDay1 /\ city = <<>> /\ genre = <<>>
    /\ inflight = <<>> /\ tracks = <<"t3">> /\ status = "Event search"

(***************************************************************************)
(* The share link                                                          *)
(***************************************************************************)
\* the shareable values of a render, in the order of the link's parameters
Shareable(r) ==
    << r.country, r.province, r.city, r.neighbourhood, r.genre, r.date, r.q,
       r.eventShowName >>

\* a page opened on link u: the initial values, then the rehydration effect
Opened(u) ==
    rehydrateEffect([Cur EXCEPT
        !.country = <<>>, !.province = <<>>, !.city = <<>>,
        !.neighbourhood = <<>>, !.genre = <<>>, !.date = <<>>, !.q = <<>>,
        !.eventShowName = <<>>, !.offlineMode = FALSE, !.url = u])

\* C31: once the page is mounted, and while no shareable value begins or ends
\* with white space, the link carries each value as it is (an empty value as
\* an absent parameter, offline as "1" iff it is on), in every state, and a
\* page opened on the link has the same nine values.
C31_LinkRoundTrip ==
    (mounted /\ \A k \in 1..8 : trim(Shareable(Cur)[k]) = Shareable(Cur)[k]) =>
        /\ << url.country, url.province, url.city, url.neighbourhood,
               url.genre, url.date, url.q, url.event >> = Shareable(Cur)
        /\ (url.offline # <<>>) <=> offlineMode
        /\ Shareable(Opened(url)) = Shareable(Cur)
        /\ Opened(url).offlineMode = offlineMode

\* C31, its case: a calendar row has set the date, the city and the genre of
\* a page opened without parameters, and the link carries them
C31_Witness ==
    /\ mounted /\ date # <<>> /\ city # <<>> /\ genre # <<>>
    /\ url.date = date /\ url.city = city /\ url.genre = genre
    /\ url.neighbourhood = <<>> /\ ~offlineMode

\* C32: every stored location value, whichever operation set it, is a fixed
\* point of the normalizer toTitleCaseSmart.
C32_StoredLocationsNormalized ==
    mounted =>
        \A k \in 1..4 :
            toTitleCaseSmart(Shareable(Cur)[k]) = Shareable(Cur)[k]

\* C33: in every reachable state, autoplayBlocked set implies that a track is
\* playing (nowPlaying is not null).
C33_BlockedImpliesPlaying == autoplayBlocked => nowPlaying # NoTrack

\* C34: in a step taken with offline mode on (before and after it) no
\* server query is started and the candidate list does not change.
C34_OfflineFreezesCandidates ==
    [][ (mounted /\ offlineMode /\ offlineMode') =>
            /\ Len(inflight') <= Len(inflight)
            /\ \A j \in DOMAIN inflight' :
                   \E i \in DOMAIN inflight : inflight'[j] = inflight[i]
            /\ tracks' = tracks ]_vars

\* C35: in every reachable state (an event's handler and effects applied)
\* every track of the queue is in the current filtered list.
C35_QueueWithinFiltered ==
    mounted => Range(queue) \subseteq Range(filtered(Cur))

\* C36: when the tracks of the events matching the current selection arrive,
\* every one of them is in the filtered list.
C36_EventTracksPassFilter ==
    [][ \A i \in 1..MaxInflight :
          (EventTracksFetchSucceeds(i) /\ inflight[i].snap = Snap(Cur)) =>
              Range(tracks') \subseteq Range(filtered(Cur)') ]_vars

(***************************************************************************)
(* The search by a performer's display name: the page is opened without    *)
(* parameters and the listener types the display name of performer x,      *)
(* which is neither in x's slug nor in the titles of x's tracks.           *)
(***************************************************************************)
sW == <<"W">>

BandTexts == { <<>>, sW }

InitBand == InitWith({NoParams}, MaxInflight, {TRUE})

NextBand ==
    \/ Mount
    \/ Go
    \/ \E v \in BandTexts : SetQ(v)
    \/ \E i \in 1..MaxInflight : RpcFails(i)
    \/ \E i \in 1..MaxInflight : RpcSucceeds(i)
    \/ PerformerSettles

SpecBand == InitBand /\ [][NextBand]_vars

\* C37: when the search text is the only filter set and the tracks of the
\* performer matched to it arrive, every one of them is in the filtered
\* list.
C37_PerformerTracksPassFilter ==
    [][ \A i \in 1..MaxInflight :
          ( /\ BandTracksFetchSucceeds(i)
            /\ inflight[i].snap = Snap(Cur)
            /\ \A k \in {1, 2, 3, 4, 5, 6, 8} : Shareable(Cur)[k] = <<>> ) =>
              Range(tracks') \subseteq Range(filtered(Cur)') ]_vars

\* C38: when the tracks of an event arrive while the auto-start flag of
\* pickEventAndPlay is set and nothing is playing, and the filtered list is
\* then not empty, a track is playing after that step and the flag is
\* cleared.
C38_PickedEventStartsPlaying ==
    [][ \A i \in 1..MaxInflight :
          ( /\ EventTracksFetchSucceeds(i)
            /\ autoStartAfterEventPickRef
            /\ nowPlaying = NoTrack
            /\ filtered(Cur)' # <<>> ) =>
              /\ nowPlaying' # NoTrack
              /\ ~autoStartAfterEventPickRef' ]_vars

(***************************************************************************)
(* Events reached by their calendar row or by their share link: the named  *)
(* event FEST, the event stored under the name "G " (with a blank at its   *)
(* end) and the unnamed event of Ottawa.                                   *)
(***************************************************************************)
toUpperEventName(s) == toUpperCase(normSpaces(s))

\* the parameters of the link the events page builds for a row
buildEventLink(ev) ==
    IF toUpperEventName(ev.note) # <<>>
    THEN [NoParams EXCEPT !.event = toUpperEventName(ev.note)]
    ELSE [NoParams EXCEPT !.date = slice10(ev.show_date),
                          !.city = norm(ev.city), !.genre = norm(ev.genre)]

NoteEvents == { e \in EventRows : e.id \in {"e1", "e2", "e5"} }

NoteUrls == {NoParams} \cup { buildEventLink(ev) : ev \in NoteEvents }

InitNote == InitWith(NoteUrls, MaxInflight, {TRUE})

NextNote ==
    \/ Mount
    \/ \E ev \in NoteEvents : PickEventAndPlay(ev)
    \/ FetchSettles

SpecNote == InitNote /\ [][NextNote]_vars

=============================================================================
